---- MODULE Spec2Model ----
(***************************************************************************)
(* GreenCure: the validated-generation retry loop of GreenCureAI           *)
(* (agricultural_util.py) and the session store and reporter of            *)
(* GreenCureManager (app.py).                                              *)
(*                                                                         *)
(* A reply of the remote model is modelled as the JSON document its text   *)
(* denotes (or as text that is not JSON); Python values are modelled as    *)
(* tagged records of one shape so that a str, a dict, a list, a number and *)
(* None stay distinguishable, as isinstance() and pydantic see them.       *)
(***************************************************************************)
EXTENDS FiniteSets, Integers, Sequences, TLC

VARIABLES
    kind,               \* the generator method being executed
    pc,                 \* "idle" | "attempting" | "returned" | "raised"
    attempt,            \* the loop variable of `for attempt in range(max_attempts)`
    calls,              \* number of llm.invoke calls issued by the current call
    replies,            \* what llm.invoke did on each attempt of the current call
    lastError,          \* `e`, the exception caught by the latest `except Exception as e`
    record,             \* the record returned by the generator (JNull when none)
    error,              \* the exception raised by the generator (NoError when none)
    recommendations,    \* GreenCureManager.recommendations
    diagnoses,          \* GreenCureManager.diagnoses
    soil_analyses,      \* GreenCureManager.soil_analyses
    weather_advisories, \* GreenCureManager.weather_advisories
    market_analyses,    \* GreenCureManager.market_analyses
    clock,              \* datetime.now(), in seconds
    report,             \* what the latest report generation produced
    environ,            \* os.environ: the secret of each credential slot
    ai,                 \* what the latest GreenCureAI(...) construction gave
    has_manager,        \* 'green_cure_manager' in st.session_state
    ui,                 \* position of the script run: "idle" | "calling"
    run,                \* widget values of the script run that is calling
    shown,              \* the latest st.error / st.success of the page
    others              \* st.session_state of the other browser sessions

genVars == <<kind, pc, attempt, calls, replies, lastError, record, error>>
storeVars == <<recommendations, diagnoses, soil_analyses, weather_advisories,
               market_analyses, clock, report>>
histories == <<recommendations, diagnoses, soil_analyses, weather_advisories,
               market_analyses>>
buildVars == <<environ, ai>>
uiVars == <<has_manager, ui, run, shown>>
vars == <<kind, pc, attempt, calls, replies, lastError, record, error,
          recommendations, diagnoses, soil_analyses, weather_advisories,
          market_analyses, clock, report,
          environ, ai, has_manager, ui, run, shown, others>>

(***************************************************************************)
(* Bounds of the model.                                                    *)
(***************************************************************************)
MaxListLen == 2     \* longest list of text a reply carries
MaxEntries == 4     \* entries appended to the two histories the report reads
MaxStored == 3      \* entries appended to the five histories together
MaxClock == 1       \* seconds the clock advances during a session
MaxSubmitted == 2   \* entries a session stores through its pages
MaxSessionClock == 0 \* seconds between the first and the last run of a session

(***************************************************************************)
(* Python / JSON values.                                                   *)
(***************************************************************************)
JStr(text) == [t |-> "str", s |-> text, kv |-> <<>>, items |-> <<>>]
JNum(text) == [t |-> "num", s |-> text, kv |-> <<>>, items |-> <<>>]
JNull == [t |-> "null", s |-> "", kv |-> <<>>, items |-> <<>>]
JObj(pairs) == [t |-> "obj", s |-> "", kv |-> pairs, items |-> <<>>]
JList(elems) == [t |-> "list", s |-> "", kv |-> <<>>, items |-> elems]

HasKey(obj, key) == \E i \in 1..Len(obj.kv) : obj.kv[i][1] = key

\* dict.get(key, default)
Get(obj, key, default) ==
    IF HasKey(obj, key)
    THEN LET i == CHOOSE j \in 1..Len(obj.kv) : obj.kv[j][1] = key
         IN  obj.kv[i][2]
    ELSE default

\* d[key] = v : replaces the value in place, or adds the key last
SetKey(obj, key, v) ==
    IF HasKey(obj, key)
    THEN JObj([i \in 1..Len(obj.kv) |->
                 IF obj.kv[i][1] = key THEN <<key, v>> ELSE obj.kv[i]])
    ELSE JObj(Append(obj.kv, <<key, v>>))

DelKey(obj, key) == JObj(SelectSeq(obj.kv, LAMBDA p : p[1] # key))

\* bool(v) for the values a record field holds
Truthy(v) ==
    CASE v.t = "str" -> v.s # ""
      [] v.t = "list" -> Len(v.items) > 0
      [] v.t = "obj" -> Len(v.kv) > 0
      [] v.t = "num" -> v.s # "0"
      [] OTHER -> FALSE

RECURSIVE PyRepr(_), PyReprPairs(_), PyReprItems(_)
\* repr(v)
PyRepr(v) ==
    CASE v.t = "str" -> "'" \o v.s \o "'"
      [] v.t = "num" -> v.s
      [] v.t = "null" -> "None"
      [] v.t = "obj" -> "{" \o PyReprPairs(v.kv) \o "}"
      [] OTHER -> "[" \o PyReprItems(v.items) \o "]"
PyReprPairs(pairs) ==
    IF pairs = <<>> THEN ""
    ELSE "'" \o pairs[1][1] \o "': " \o PyRepr(pairs[1][2])
         \o (IF Len(pairs) > 1 THEN ", " \o PyReprPairs(Tail(pairs)) ELSE "")
PyReprItems(elems) ==
    IF elems = <<>> THEN ""
    ELSE PyRepr(elems[1])
         \o (IF Len(elems) > 1 THEN ", " \o PyReprItems(Tail(elems)) ELSE "")

\* str(v), also what an f-string substitutes for {v}
PyStr(v) == IF v.t = "str" THEN v.s ELSE PyRepr(v)

\* type(v).__name__
PyTypeName(v) ==
    CASE v.t = "str" -> "str"
      [] v.t = "num" -> "int"
      [] v.t = "null" -> "NoneType"
      [] v.t = "obj" -> "dict"
      [] OTHER -> "list"

(***************************************************************************)
(* The five record shapes.                                                 *)
(***************************************************************************)
Kinds == {"crop", "disease", "soil", "weather", "market"}

Field(name, type, clean) == [name |-> name, type |-> type, clean |-> clean]

CropRecommendation ==
    << Field("crop_name", "str", TRUE),
       Field("planting_season", "str", FALSE),
       Field("care_instructions", "list", FALSE),
       Field("expected_yield", "str", FALSE),
       Field("market_value", "str", FALSE) >>

DiseaseAnalysis ==
    << Field("disease_name", "str", TRUE),
       Field("severity", "str", FALSE),
       Field("symptoms", "list", FALSE),
       Field("treatment", "list", FALSE),
       Field("prevention", "list", FALSE) >>

SoilAnalysis ==
    << Field("soil_type", "str", TRUE),
       Field("ph_level", "str", FALSE),
       Field("nutrient_status", "list", FALSE),
       Field("recommendations", "list", FALSE),
       Field("suitable_crops", "list", FALSE) >>

WeatherAdvisory ==
    << Field("current_conditions", "str", TRUE),
       Field("farming_impact", "str", FALSE),
       Field("recommendations", "list", FALSE),
       Field("alerts", "list", FALSE) >>

MarketAnalysis ==
    << Field("crop_name", "str", TRUE),
       Field("current_price", "str", FALSE),
       Field("price_trend", "str", FALSE),
       Field("demand_status", "str", FALSE),
       Field("selling_tips", "list", FALSE) >>

\* the pydantic_object each method hands to its PydanticOutputParser
Schema(k) ==
    CASE k = "crop" -> CropRecommendation
      [] k = "disease" -> DiseaseAnalysis
      [] k = "soil" -> SoilAnalysis
      [] k = "weather" -> WeatherAdvisory
      [] OTHER -> MarketAnalysis

ClassName(k) ==
    CASE k = "crop" -> "CropRecommendation"
      [] k = "disease" -> "DiseaseAnalysis"
      [] k = "soil" -> "SoilAnalysis"
      [] k = "weather" -> "WeatherAdvisory"
      [] OTHER -> "MarketAnalysis"

\* the two fields each method checks after parsing
RequiredScalar(k) ==
    CASE k = "crop" -> "crop_name"
      [] k = "disease" -> "disease_name"
      [] k = "soil" -> "soil_type"
      [] k = "weather" -> "current_conditions"
      [] OTHER -> "crop_name"

RequiredList(k) ==
    CASE k = "crop" -> "care_instructions"
      [] k = "disease" -> "treatment"
      [] k = "soil" -> "recommendations"
      [] k = "weather" -> "recommendations"
      [] OTHER -> "selling_tips"

\* the text of the ValueError of the required-field check
InvalidFormatMessage(k) ==
    CASE k = "crop" -> "Invalid crop recommendation format"
      [] k = "disease" -> "Invalid disease analysis format"
      [] k = "soil" -> "Invalid soil analysis format"
      [] k = "weather" -> "Invalid weather advisory format"
      [] OTHER -> "Invalid market analysis format"

\* mutant of TaskLabel: the label of one method pasted into the others
TaskLabel_pasted(k) == "disease diagnosis"

\* what the RuntimeError of an exhausted loop says it failed to generate
TaskLabel(k) ==
    CASE k = "disease" -> "disease diagnosis"
      [] k = "soil" -> "soil analysis"
      [] k = "weather" -> "weather advisory"
      [] OTHER -> "market analysis"

(***************************************************************************)
(* Parsing a reply into a record.                                          *)
(***************************************************************************)
\* mutants of clean_name: repr() in place of str(); the description ignored
clean_name_repr(v) ==
    IF v.t = "obj" THEN Get(v, "description", JStr(PyRepr(v)))
    ELSE JStr(PyRepr(v))

clean_name_whole(v) == JStr(PyStr(v))

\* the mode="before" validator of every name-like field
clean_name(v) ==
    IF v.t = "obj" THEN Get(v, "description", JStr(PyStr(v)))
    ELSE JStr(PyStr(v))

\* the value pydantic validates for field f of the JSON object obj
FieldInput(f, obj) ==
    LET raw == Get(obj, f.name, JNull)
    IN  IF f.clean THEN clean_name(raw) ELSE raw

\* pydantic: a required field must be present; str takes a str only,
\* List[str] takes a list of str only
FieldValid(f, obj) ==
    /\ HasKey(obj, f.name)
    /\ LET v == FieldInput(f, obj)
       IN  IF f.type = "str" THEN v.t = "str"
           ELSE /\ v.t = "list"
                /\ \A i \in 1..Len(v.items) : v.items[i].t = "str"

\* model_validate: the record built from a JSON object (extra keys ignored)
ModelValidate(k, obj) ==
    JObj([i \in 1..Len(Schema(k)) |->
            <<Schema(k)[i].name, FieldInput(Schema(k)[i], obj)>>])

ModelValid(k, obj) ==
    \A i \in 1..Len(Schema(k)) : FieldValid(Schema(k)[i], obj)

Exc(class, text) == [exc |-> class, msg |-> text, what |-> "", attempts |-> 0, cause |-> ""]
NoError == Exc("", "")

Ok(rec) == [ok |-> TRUE, rec |-> rec, err |-> NoError]
Fail(e) == [ok |-> FALSE, rec |-> JNull, err |-> e]

\* PydanticOutputParser.parse(content): content is text that is not JSON
\* (how = "garbage") or the text of a JSON document (how = "json")
ParserParse(k, content) ==
    IF content.how # "json"
    THEN Fail(Exc("OutputParserException", "Invalid json output"))
    ELSE IF content.body.t = "obj" /\ ModelValid(k, content.body)
         THEN Ok(ModelValidate(k, content.body))
         ELSE Fail(Exc("OutputParserException", "Failed to parse " \o ClassName(k)))

\* mutant of RequiredFieldCheck: the list is not looked at
RequiredFieldCheck_scalar_only(k, rec) ==
    IF ~Truthy(Get(rec, RequiredScalar(k), JNull))
    THEN Fail(Exc("ValueError", InvalidFormatMessage(k)))
    ELSE Ok(rec)

\* the required-field check that follows parser.parse
RequiredFieldCheck(k, rec) ==
    IF \/ ~Truthy(Get(rec, RequiredScalar(k), JNull))
       \/ ~Truthy(Get(rec, RequiredList(k), JNull))
    THEN Fail(Exc("ValueError", InvalidFormatMessage(k)))
    ELSE Ok(rec)

(***************************************************************************)
(* Replies of the remote endpoint.                                         *)
(***************************************************************************)
\* llm.invoke raised an exception with this message
ThrowReply(text) == [how |-> "throw", msg |-> text, bracket |-> FALSE, body |-> JNull]
\* llm.invoke returned text that is not JSON; bracket: the text starts with '['
GarbageReply(b) == [how |-> "garbage", msg |-> "", bracket |-> b, body |-> JNull]
\* llm.invoke returned the text of the JSON document doc
JsonReply(doc) == [how |-> "json", msg |-> "", bracket |-> doc.t = "list", body |-> doc]

ListOfLen(n) == JList([i \in 1..n |-> JStr("step " \o ToString(i))])

\* an object that matches the schema of kind k, all texts marked with tag
Sample(k, tag) ==
    JObj([i \in 1..Len(Schema(k)) |->
            <<Schema(k)[i].name,
              IF Schema(k)[i].type = "str"
              THEN JStr(tag \o " " \o Schema(k)[i].name)
              ELSE ListOfLen(1)>>])

Description(v) == JObj(<< <<"description", v>> >>)

NameValues ==
    { JStr("Rice"), JStr(""), JNull, JObj(<<>>),
      Description(JStr("Leaf blast")), Description(JStr("")), Description(JNum("5")),
      JObj(<< <<"name", JStr("Rice")>> >>),
      JObj(<< <<"name", JStr("Rice")>>, <<"description", JStr("Leaf blast")>> >>) }

ListValues ==
    {ListOfLen(n) : n \in 0..MaxListLen}
      \cup { JStr("step 1"), JList(<<JNum("1")>>) }

MarketValues ==
    { JObj(<< <<"current_price", JStr("₹2000")>>, <<"demand", JStr("high")>> >>),
      JObj(<< <<"current_price", JStr("₹2000")>> >>),
      JObj(<< <<"demand", JStr("high")>> >>),
      JObj(<<>>),
      JObj(<< <<"current_price", JNum("2000")>>, <<"demand", JNull>> >>) }

\* JSON objects a reply may be: the schema's shape, and departures from it
ObjectBodies(k) ==
    LET base == Sample(k, "A")
    IN  {base, Sample(k, "B")}
          \cup {SetKey(base, RequiredScalar(k), nv) : nv \in NameValues}
          \cup {SetKey(base, RequiredList(k), lv) : lv \in ListValues}
          \cup {SetKey(SetKey(base, RequiredScalar(k), JStr("")), RequiredList(k), ListOfLen(0))}
          \cup {DelKey(base, Schema(k)[i].name) : i \in {1, Len(Schema(k))}}
          \cup {SetKey(base, Schema(k)[2].name, JNum("7")),
                SetKey(base, "notes", JStr("extra")),
                SetKey(base, "market_value", CHOOSE mv \in MarketValues : Len(mv.kv) = 2 /\ mv.kv[2][2].t = "str")}

\* JSON arrays a reply may be; only get_crop_recommendation looks into one
ArrayBodies(k) ==
    LET base == Sample(k, "A")
    IN  { JList(<<>>), JList(<<base>>) }
          \cup (IF k # "crop" THEN {}
                ELSE { JList(<<Sample(k, "B"), base>>),
                       JList(<<SetKey(base, RequiredScalar(k), JStr(""))>>),
                       JList(<<JStr("Rice")>>), JList(<<JNull>>),
                       JList(<<JList(<<base>>)>>) }
                       \cup {JList(<<SetKey(base, "market_value", mv)>>) : mv \in MarketValues})

Replies(k) ==
    { ThrowReply("Connection error"), GarbageReply(FALSE), GarbageReply(TRUE),
      JsonReply(JStr("Rice")) }
      \cup {JsonReply(b) : b \in ObjectBodies(k) \cup ArrayBodies(k)}

(***************************************************************************)
(* One attempt of a generator method.                                      *)
(***************************************************************************)
max_attempts == 3

\* mutant of CollapseMarketValue: a missing part is left empty
CollapseMarketValue_no_defaults(first) ==
    LET market_info == Get(first, "market_value", JNull)
        price == Get(market_info, "current_price", JStr(""))
        demand == Get(market_info, "demand", JStr(""))
    IN  IF market_info.t = "obj"
        THEN SetKey(first, "market_value", JStr(PyStr(price) \o ", " \o PyStr(demand)))
        ELSE first

\* get_crop_recommendation only: a reply that starts with '[' is replaced by
\* its first element, whose market_value sub-object is collapsed to text
CollapseMarketValue(first) ==
    LET market_info == Get(first, "market_value", JNull)
        price == Get(market_info, "current_price", JStr("Price varies"))
        demand == Get(market_info, "demand", JStr("Good demand"))
    IN  IF market_info.t = "obj"
        THEN SetKey(first, "market_value", JStr(PyStr(price) \o ", " \o PyStr(demand)))
        ELSE first

\* mutant of UnwrapArray: the last element of the array, not the first
UnwrapArray_last(content) ==
    IF content.bracket /\ content.how = "json"
          /\ content.body.t = "list" /\ Len(content.body.items) > 0
    THEN LET first_recommendation == content.body.items[Len(content.body.items)]
         IN  IF first_recommendation.t # "obj"
             THEN [ok |-> FALSE, content |-> content,
                   err |-> Exc("AttributeError",
                               "'" \o PyTypeName(first_recommendation)
                                   \o "' object has no attribute 'get'")]
             ELSE [ok |-> TRUE, err |-> NoError,
                   content |-> JsonReply(CollapseMarketValue(first_recommendation))]
    ELSE [ok |-> TRUE, content |-> content, err |-> NoError]

\* the result is the content handed to parser.parse, or the exception that
\* leaves the inner try (only json.JSONDecodeError is caught there)
UnwrapArray(content) ==
    IF content.bracket /\ content.how = "json"
          /\ content.body.t = "list" /\ Len(content.body.items) > 0
    THEN LET first_recommendation == content.body.items[1]
         IN  IF first_recommendation.t # "obj"
             THEN [ok |-> FALSE, content |-> content,
                   err |-> Exc("AttributeError",
                               "'" \o PyTypeName(first_recommendation)
                                   \o "' object has no attribute 'get'")]
             ELSE [ok |-> TRUE, err |-> NoError,
                   content |-> JsonReply(CollapseMarketValue(first_recommendation))]
    ELSE [ok |-> TRUE, content |-> content, err |-> NoError]

\* one loop iteration up to and including parser.parse, given what
\* llm.invoke did: get_crop_recommendation, and the other four methods
CropParse(r) ==
    IF r.how = "throw" THEN Fail(Exc("Exception", r.msg))
    ELSE LET unwrapped == UnwrapArray(r)
         IN  IF unwrapped.ok THEN ParserParse("crop", unwrapped.content)
             ELSE Fail(unwrapped.err)

PlainParse(k, r) ==
    IF r.how = "throw" THEN Fail(Exc("Exception", r.msg))
    ELSE ParserParse(k, r)

\* mutant of AttemptParse: every method looks into a JSON array
AttemptParse_unwrap_all(k, r) ==
    IF r.how = "throw" THEN Fail(Exc("Exception", r.msg))
    ELSE LET unwrapped == UnwrapArray(r)
         IN  IF unwrapped.ok THEN ParserParse(k, unwrapped.content)
             ELSE Fail(unwrapped.err)

AttemptParse(k, r) == IF k = "crop" THEN CropParse(r) ELSE PlainParse(k, r)

\* the whole try block of one loop iteration
AttemptOutcome(k, r) ==
    LET parsed == AttemptParse(k, r)
    IN  IF parsed.ok THEN RequiredFieldCheck(k, parsed.rec) ELSE parsed

\* the hardcoded record get_crop_recommendation returns on exhaustion
FallbackRecommendation ==
    JObj(<< <<"crop_name", JStr("Wheat")>>,
            <<"planting_season", JStr("Rabi season (November-December) for your region")>>,
            <<"care_instructions",
              JList(<< JStr("Prepare field with proper ploughing and leveling"),
                       JStr("Apply organic manure 15-20 tons per hectare"),
                       JStr("Maintain proper irrigation schedule") >>)>>,
            <<"expected_yield", JStr("25-30 quintals per hectare")>>,
            \* the source spells the rupee sign as its mis-decoded bytes
            <<"market_value", JStr("₹2000-2500 per quintal with good market demand")>> >>)

\* RuntimeError(f"Failed to generate {label} after {max_attempts} attempts: {str(e)}")
TerminalError(k, e) ==
    [exc |-> "RuntimeError",
     msg |-> "Failed to generate " \o TaskLabel(k) \o " after "
               \o ToString(max_attempts) \o " attempts: " \o e.msg,
     what |-> TaskLabel(k), attempts |-> max_attempts, cause |-> e.msg]

(***************************************************************************)
(* GreenCureAI.__init__: resolving the credential slot.                    *)
(***************************************************************************)
\* api_key_mapping, as its list of (slot name, environment variable) items
api_key_mapping ==
    JObj(<< <<"GROQ1", JStr("GROQ_API_KEY_1")>>, <<"GROQ2", JStr("GROQ_API_KEY_2")>>,
            <<"GROQ3", JStr("GROQ_API_KEY_3")>>, <<"GROQ4", JStr("GROQ_API_KEY_4")>> >>)

\* os.getenv(name): None when the variable is unset
getenv(env, name) == Get(env, name, JNull)

\* mutant of GreenCureAI_init: only an unset secret is refused
GreenCureAI_init_unset_only(api_key_name, env) ==
    LET api_key_value ==
            IF Truthy(api_key_name) /\ HasKey(api_key_mapping, api_key_name.s)
            THEN getenv(env, Get(api_key_mapping, api_key_name.s, JNull).s)
            ELSE JNull
    IN  IF api_key_value = JNull
        THEN Exc("ValueError", "API key not found for " \o PyStr(api_key_name))
        ELSE NoError

\* the exception GreenCureAI(api_key_name) raises, NoError when it builds
GreenCureAI_init(api_key_name, env) ==
    LET api_key_value ==
            IF Truthy(api_key_name) /\ HasKey(api_key_mapping, api_key_name.s)
            THEN getenv(env, Get(api_key_mapping, api_key_name.s, JNull).s)
            ELSE JNull
    IN  IF ~Truthy(api_key_value)
        THEN Exc("ValueError", "API key not found for " \o PyStr(api_key_name))
        ELSE NoError

Built == [state |-> "ready", err |-> NoError]
NotBuilt(e) == [state |-> "failed", err |-> e]

\* GreenCureAI(api_key_name): a new generator object, or the exception
Construct(api_key_name) ==
    /\ pc # "attempting"
    /\ LET e == GreenCureAI_init(api_key_name, environ)
       IN  /\ ai' = IF e = NoError THEN Built ELSE NotBuilt(e)
           /\ pc' = IF e = NoError THEN "idle" ELSE "unbuilt"
    /\ kind' = "crop"
    /\ attempt' = 0
    /\ calls' = 0
    /\ replies' = <<>>
    /\ lastError' = NoError
    /\ record' = JNull
    /\ error' = NoError
    /\ UNCHANGED environ

(***************************************************************************)
(* The generator methods, one loop iteration per step.                     *)
(***************************************************************************)
\* a method is called: everything up to `for attempt in range(max_attempts)`
Called(k) ==
    /\ kind' = k
    /\ pc' = "attempting"
    /\ attempt' = 0
    /\ calls' = 0
    /\ replies' = <<>>
    /\ lastError' = NoError
    /\ record' = JNull
    /\ error' = NoError

\* a method of a built generator is called by any caller
Enter(k) ==
    /\ pc \in {"idle", "returned", "raised"}
    /\ Called(k)
    /\ UNCHANGED storeVars

\* mutant of ExceptCrop: only the parser's and the check's exceptions are caught
ExceptCrop_parser_only(e) ==
    IF e.exc \in {"OutputParserException", "ValueError"}
    THEN /\ lastError' = e
         /\ error' = NoError
         /\ IF attempt = max_attempts - 1
            THEN /\ pc' = "returned"
                 /\ record' = FallbackRecommendation
                 /\ attempt' = attempt
            ELSE /\ pc' = "attempting"
                 /\ record' = JNull
                 /\ attempt' = attempt + 1
    ELSE /\ lastError' = e
         /\ error' = e
         /\ pc' = "raised"
         /\ record' = JNull
         /\ attempt' = attempt

\* mutant of ExceptCrop: the last attempt is tested for as max_attempts
ExceptCrop_off_by_one(e) ==
    /\ lastError' = e
    /\ error' = NoError
    /\ IF attempt = max_attempts
       THEN /\ pc' = "returned"
            /\ record' = FallbackRecommendation
            /\ attempt' = attempt
       ELSE /\ pc' = "attempting"
            /\ record' = JNull
            /\ attempt' = attempt + 1

\* mutant of ExceptCrop: the fallback is handed back after the second failure
ExceptCrop_two_attempts(e) ==
    /\ lastError' = e
    /\ error' = NoError
    /\ IF attempt >= max_attempts - 2
       THEN /\ pc' = "returned"
            /\ record' = FallbackRecommendation
            /\ attempt' = attempt
       ELSE /\ pc' = "attempting"
            /\ record' = JNull
            /\ attempt' = attempt + 1

\* what the except clause of an iteration does with the exception e
ExceptCrop(e) ==
    /\ lastError' = e
    /\ error' = NoError
    /\ IF attempt = max_attempts - 1
       THEN /\ pc' = "returned"
            /\ record' = FallbackRecommendation
            /\ attempt' = attempt
       ELSE /\ pc' = "attempting"
            /\ record' = JNull
            /\ attempt' = attempt + 1

\* mutant of ExceptRaise: every failure is raised to the caller at once
ExceptRaise_surfaced(k, e) ==
    /\ lastError' = e
    /\ record' = JNull
    /\ pc' = "raised"
    /\ error' = TerminalError(k, e)
    /\ attempt' = attempt

\* mutant of ExceptRaise: exhaustion hands back the crop fallback record
ExceptRaise_fallback(k, e) ==
    /\ lastError' = e
    /\ error' = NoError
    /\ IF attempt = max_attempts - 1
       THEN /\ pc' = "returned"
            /\ record' = FallbackRecommendation
            /\ attempt' = attempt
       ELSE /\ pc' = "attempting"
            /\ record' = JNull
            /\ attempt' = attempt + 1

\* mutant of ExceptRaise: the first failure is kept and reported
ExceptRaise_first_error(k, e) ==
    LET kept == IF attempt = 0 THEN e ELSE lastError
    IN  /\ lastError' = kept
        /\ record' = JNull
        /\ IF attempt = max_attempts - 1
           THEN /\ pc' = "raised"
                /\ error' = TerminalError(k, kept)
                /\ attempt' = attempt
           ELSE /\ pc' = "attempting"
                /\ error' = NoError
                /\ attempt' = attempt + 1

\* mutant of ExceptRaise: the loop variable is not advanced
ExceptRaise_no_bound(k, e) ==
    /\ lastError' = e
    /\ record' = JNull
    /\ pc' = "attempting"
    /\ error' = NoError
    /\ attempt' = 0

ExceptRaise(k, e) ==
    /\ lastError' = e
    /\ record' = JNull
    /\ IF attempt = max_attempts - 1
       THEN /\ pc' = "raised"
            /\ error' = TerminalError(k, e)
            /\ attempt' = attempt
       ELSE /\ pc' = "attempting"
            /\ error' = NoError
            /\ attempt' = attempt + 1

\* mutant of ReturnParsed: the record is kept but the loop goes on
ReturnParsed_no_return(rec) ==
    /\ pc' = IF attempt = max_attempts - 1 THEN "returned" ELSE "attempting"
    /\ record' = rec
    /\ attempt' = IF attempt = max_attempts - 1 THEN attempt ELSE attempt + 1
    /\ UNCHANGED <<lastError, error>>

ReturnParsed(rec) ==
    /\ pc' = "returned"
    /\ record' = rec
    /\ UNCHANGED <<attempt, lastError, error>>

\* one iteration of the loop of method k, the endpoint doing r
Iteration(k, r) ==
    /\ pc = "attempting"
    /\ kind = k
    /\ attempt < max_attempts
    /\ calls' = calls + 1
    /\ replies' = Append(replies, r)
    /\ LET out == AttemptOutcome(k, r)
       IN  IF out.ok THEN ReturnParsed(out.rec)
           ELSE IF k = "crop" THEN ExceptCrop(out.err) ELSE ExceptRaise(k, out.err)
    /\ UNCHANGED <<kind, storeVars, buildVars, uiVars, others>>

get_crop_recommendation == \E r \in Replies("crop") : Iteration("crop", r)
diagnose_crop_disease == \E r \in Replies("disease") : Iteration("disease", r)
analyze_soil_conditions == \E r \in Replies("soil") : Iteration("soil", r)
get_weather_advisory == \E r \in Replies("weather") : Iteration("weather", r)
analyze_market_conditions == \E r \in Replies("market") : Iteration("market", r)

(***************************************************************************)
(* GreenCureManager: the session store.                                    *)
(***************************************************************************)
TwoDigits(n) == IF n < 10 THEN "0" \o ToString(n) ELSE ToString(n)

\* datetime.now().strftime('%Y-%m-%d %H:%M:%S'), t seconds into the session
Strftime(t) == "2025-06-01 10:00:" \o TwoDigits(t)
\* datetime.now().strftime("%Y%m%d_%H%M%S")
StrftimeCompact(t) == "20250601_1000" \o TwoDigits(t)

\* the values datetime.now() may take when the clock last read `clock`
Now == {t \in clock..(clock + 1) : t <= MaxClock}

\* mutant of Stamped: {'timestamp': ..., **data}, a key of data wins
Stamped_data_wins(data, now) ==
    IF HasKey(data, "timestamp") THEN data
    ELSE SetKey(data, "timestamp", JStr(Strftime(now)))

\* {**data, 'timestamp': datetime.now().strftime(...)}
Stamped(data, now) == SetKey(data, "timestamp", JStr(Strftime(now)))

TotalEntries ==
    Len(recommendations) + Len(diagnoses) + Len(soil_analyses)
      + Len(weather_advisories) + Len(market_analyses)

add_recommendation(recommendation_data) ==
    /\ \E now \in Now :
          /\ clock' = now
          /\ recommendations' = Append(recommendations, Stamped(recommendation_data, now))
    /\ report' = [status |-> "none", path |-> "", lines |-> <<>>, message |-> ""]
    /\ UNCHANGED <<diagnoses, soil_analyses, weather_advisories, market_analyses>>
    /\ UNCHANGED genVars

add_diagnosis(diagnosis_data) ==
    /\ \E now \in Now :
          /\ clock' = now
          /\ diagnoses' = Append(diagnoses, Stamped(diagnosis_data, now))
    /\ report' = [status |-> "none", path |-> "", lines |-> <<>>, message |-> ""]
    /\ UNCHANGED <<recommendations, soil_analyses, weather_advisories, market_analyses>>
    /\ UNCHANGED genVars

add_soil_analysis(soil_data) ==
    /\ \E now \in Now :
          /\ clock' = now
          /\ soil_analyses' = Append(soil_analyses, Stamped(soil_data, now))
    /\ report' = [status |-> "none", path |-> "", lines |-> <<>>, message |-> ""]
    /\ UNCHANGED <<recommendations, diagnoses, weather_advisories, market_analyses>>
    /\ UNCHANGED genVars

\* mutant of add_weather_advisory: the entry goes to the soil history
add_weather_advisory_to_soil(weather_data) ==
    /\ \E now \in Now :
          /\ clock' = now
          /\ soil_analyses' = Append(soil_analyses, Stamped(weather_data, now))
    /\ report' = [status |-> "none", path |-> "", lines |-> <<>>, message |-> ""]
    /\ UNCHANGED <<recommendations, diagnoses, weather_advisories, market_analyses>>
    /\ UNCHANGED genVars

add_weather_advisory(weather_data) ==
    /\ \E now \in Now :
          /\ clock' = now
          /\ weather_advisories' = Append(weather_advisories, Stamped(weather_data, now))
    /\ report' = [status |-> "none", path |-> "", lines |-> <<>>, message |-> ""]
    /\ UNCHANGED <<recommendations, diagnoses, soil_analyses, market_analyses>>
    /\ UNCHANGED genVars

add_market_analysis(market_data) ==
    /\ \E now \in Now :
          /\ clock' = now
          /\ market_analyses' = Append(market_analyses, Stamped(market_data, now))
    /\ report' = [status |-> "none", path |-> "", lines |-> <<>>, message |-> ""]
    /\ UNCHANGED <<recommendations, diagnoses, soil_analyses, weather_advisories>>
    /\ UNCHANGED genVars

(***************************************************************************)
(* GreenCureManager.generate_comprehensive_report.                         *)
(***************************************************************************)
height == 792       \* reportlab's letter page is 612 x 792 points

Dashes60 == "------------------------------------------------------------"

RecommendationLines(i, rec) ==
    << "Recommendation " \o ToString(i) \o ":",
       "Crop: " \o PyStr(Get(rec, "crop_name", JStr("N/A"))),
       "Season: " \o PyStr(Get(rec, "planting_season", JStr("N/A"))),
       "Expected Yield: " \o PyStr(Get(rec, "expected_yield", JStr("N/A"))),
       "Timestamp: " \o PyStr(Get(rec, "timestamp", JStr("N/A"))),
       Dashes60 >>

DiagnosisLines(i, diag) ==
    << "Diagnosis " \o ToString(i) \o ":",
       "Disease: " \o PyStr(Get(diag, "disease_name", JStr("N/A"))),
       "Severity: " \o PyStr(Get(diag, "severity", JStr("N/A"))),
       "Timestamp: " \o PyStr(Get(diag, "timestamp", JStr("N/A"))),
       Dashes60 >>

EntryLines(section, i, entry) ==
    IF section = "recommendations" THEN RecommendationLines(i, entry)
    ELSE DiagnosisLines(i, entry)

\* mutant of LastThree: the first three entries
LastThree_first(history) == SubSeq(history, 1, IF Len(history) < 3 THEN Len(history) ELSE 3)

\* history[-3:]
LastThree(history) ==
    SubSeq(history, IF Len(history) > 3 THEN Len(history) - 2 ELSE 1, Len(history))

\* one step of the drawing code: c.drawString(40, y, text) when draw, after
\* the page-break test when check, followed by y -= drop; section and entry
\* note the block and the enumerate() index the step belongs to
Step(section, entry, text, check, draw, drop) ==
    [section |-> section, entry |-> entry, text |-> text,
     check |-> check, draw |-> draw, drop |-> drop]

\* `for i, rec in enumerate(history[-3:], 1): ... for line in lines:`
EntrySteps(section, entries) ==
    IF entries = <<>> THEN <<>>
    ELSE LET perEntry == Len(EntryLines(section, 1, entries[1]))
         IN  [k \in 1..(Len(entries) * perEntry) |->
                LET i == ((k - 1) \div perEntry) + 1
                    line == EntryLines(section, i, entries[i])[((k - 1) % perEntry) + 1]
                IN  Step(section, i, line, TRUE, TRUE, 15)]

\* one `if self.<history>:` block: heading, entries, and the final y -= 10
SectionSteps(section, heading, history) ==
    IF history = <<>> THEN <<>>
    ELSE <<Step(section, 0, heading, FALSE, TRUE, 20)>>
           \o EntrySteps(section, LastThree(history))
           \o <<Step(section, 0, "", FALSE, FALSE, 10)>>

\* mutant of CanvasAfter: the page is broken below y = 600
RECURSIVE CanvasAfter_early_break(_, _)
CanvasAfter_early_break(steps, n) ==
    IF n = 0 THEN <<>>
    ELSE LET earlier == CanvasAfter_early_break(steps, n - 1)
             before == IF n = 1 THEN [page |-> 1, at |-> height - 40, y |-> height - 40]
                       ELSE earlier[n - 1]
             break == steps[n].check /\ before.y < 600
             y == IF break THEN height - 40 ELSE before.y
         IN  Append(earlier, [page |-> IF break THEN before.page + 1 ELSE before.page,
                              at |-> y,
                              y |-> y - steps[n].drop])

\* the canvas after each of the first n steps: the page, the y the step drew
\* at, and the y it left
RECURSIVE CanvasAfter(_, _)
CanvasAfter(steps, n) ==
    IF n = 0 THEN <<>>
    ELSE LET earlier == CanvasAfter(steps, n - 1)
             before == IF n = 1 THEN [page |-> 1, at |-> height - 40, y |-> height - 40]
                       ELSE earlier[n - 1]
             break == steps[n].check /\ before.y < 60
             y == IF break THEN height - 40 ELSE before.y
         IN  Append(earlier, [page |-> IF break THEN before.page + 1 ELSE before.page,
                              at |-> y,
                              y |-> y - steps[n].drop])

Canvas(steps) == CanvasAfter(steps, Len(steps))

\* everything drawn on the canvas between Canvas(...) and c.save()
ComprehensiveReport(now) ==
    LET steps ==
            << Step("header", 0, "Green Cure - Comprehensive Agricultural Report",
                    FALSE, TRUE, 40),
               Step("header", 0, "Generated on: " \o Strftime(now), FALSE, TRUE, 30) >>
              \o SectionSteps("recommendations", "CROP RECOMMENDATIONS", recommendations)
              \o SectionSteps("diagnoses", "DISEASE DIAGNOSES", diagnoses)
        canvas == Canvas(steps)
        drawn == SelectSeq([i \in 1..Len(steps) |-> i], LAMBDA i : steps[i].draw)
    IN  [k \in 1..Len(drawn) |->
           [page |-> canvas[drawn[k]].page, y |-> canvas[drawn[k]].at,
            text |-> steps[drawn[k]].text,
            section |-> steps[drawn[k]].section, entry |-> steps[drawn[k]].entry]]

\* the causes for which os.makedirs or c.save() may raise; "" is none
ExportFailures ==
    { "", "[Errno 13] Permission denied: 'results'",
      "[Errno 28] No space left on device" }

\* mutant of ReportOutcome: the path is returned although nothing was saved
ReportOutcome_path_kept(now, failure) ==
    [status |-> IF failure # "" THEN "failed" ELSE "pdf",
     path |-> "results/green_cure_comprehensive_report_"
                \o StrftimeCompact(now) \o ".pdf",
     lines |-> IF failure # "" THEN <<>> ELSE ComprehensiveReport(now),
     message |-> IF failure # "" THEN "Error generating report: " \o failure ELSE ""]

\* what one run of the method yields: the st.error and None, or the path
\* returned and the document saved under it
ReportOutcome(now, failure) ==
    IF failure # ""
    THEN [status |-> "failed", path |-> "", lines |-> <<>>,
          message |-> "Error generating report: " \o failure]
    ELSE [status |-> "pdf",
          path |-> "results/green_cure_comprehensive_report_"
                     \o StrftimeCompact(now) \o ".pdf",
          lines |-> ComprehensiveReport(now),
          message |-> ""]

generate_comprehensive_report ==
    /\ \E now \in Now, failure \in ExportFailures :
          /\ clock' = now
          /\ report' = ReportOutcome(now, failure)
    /\ UNCHANGED <<recommendations, diagnoses, soil_analyses, weather_advisories,
                   market_analyses>>
    /\ UNCHANGED genVars

(***************************************************************************)
(* generate_specific_report: the plain-text reports of the Reports page.   *)
(***************************************************************************)
Dashes50 == "--------------------------------------------------"

RECURSIVE Repeat(_, _)
\* text * n
Repeat(text, n) == IF n <= 0 THEN "" ELSE text \o Repeat(text, n - 1)

\* report_type.upper(), for the entries of the page's select box
Upper(report_type) ==
    CASE report_type = "Comprehensive Farm Report" -> "COMPREHENSIVE FARM REPORT"
      [] report_type = "Crop Recommendations Summary" -> "CROP RECOMMENDATIONS SUMMARY"
      [] report_type = "Disease Diagnosis History" -> "DISEASE DIAGNOSIS HISTORY"
      [] report_type = "Soil Analysis Summary" -> "SOIL ANALYSIS SUMMARY"
      [] report_type = "Weather Advisory Log" -> "WEATHER ADVISORY LOG"
      [] OTHER -> "MARKET ANALYSIS REPORT"

\* one line of the content: its text, the block it belongs to and, for the
\* lines of an entry, the enumerate() index
TextLine(section, entry, text) == [section |-> section, entry |-> entry, text |-> text]

\* the f-string added for entry i of manager.recommendations
RecommendationText(i, rec) ==
    << TextLine("recommendations", i, ""),
       TextLine("recommendations", i, "Recommendation " \o ToString(i) \o ":"),
       TextLine("recommendations", i, "- Crop: " \o PyStr(Get(rec, "crop_name", JStr("N/A")))),
       TextLine("recommendations", i, "- Location: " \o PyStr(Get(rec, "location", JStr("N/A")))),
       TextLine("recommendations", i, "- Season: " \o PyStr(Get(rec, "season", JStr("N/A")))),
       TextLine("recommendations", i,
                "- Expected Yield: " \o PyStr(Get(rec, "expected_yield", JStr("N/A")))),
       TextLine("recommendations", i, "- Timestamp: " \o PyStr(Get(rec, "timestamp", JStr("N/A")))),
       TextLine("recommendations", i, Dashes50) >>

\* the f-string added for entry i of manager.diagnoses
DiagnosisText(i, diag) ==
    << TextLine("diagnoses", i, ""),
       TextLine("diagnoses", i, "Diagnosis " \o ToString(i) \o ":"),
       TextLine("diagnoses", i, "- Disease: " \o PyStr(Get(diag, "disease_name", JStr("N/A")))),
       TextLine("diagnoses", i, "- Crop: " \o PyStr(Get(diag, "crop_type", JStr("N/A")))),
       TextLine("diagnoses", i, "- Severity: " \o PyStr(Get(diag, "severity", JStr("N/A")))),
       TextLine("diagnoses", i, "- Region: " \o PyStr(Get(diag, "region", JStr("N/A")))),
       TextLine("diagnoses", i, "- Timestamp: " \o PyStr(Get(diag, "timestamp", JStr("N/A")))),
       TextLine("diagnoses", i, Dashes50) >>

EntryText(section, i, entry) ==
    IF section = "recommendations" THEN RecommendationText(i, entry)
    ELSE DiagnosisText(i, entry)

\* mutant of EntriesText: the three latest entries only
EntriesText_latest(section, history) ==
    LET entries == LastThree(history)
    IN  [k \in 1..(Len(entries) * 8) |->
           EntryText(section, ((k - 1) \div 8) + 1,
                     entries[((k - 1) \div 8) + 1])[((k - 1) % 8) + 1]]

\* `for i, rec in enumerate(history, 1): content += f"""..."""`
EntriesText(section, history) ==
    [k \in 1..(Len(history) * 8) |->
       EntryText(section, ((k - 1) \div 8) + 1,
                 history[((k - 1) \div 8) + 1])[((k - 1) % 8) + 1]]

\* the lines of the content generate_specific_report(report_type) returns
SpecificReport(report_type, now) ==
    IF report_type = "Crop Recommendations Summary"
    THEN << TextLine("header", 0, ""),
            TextLine("header", 0, "GREEN CURE - CROP RECOMMENDATIONS SUMMARY"),
            TextLine("header", 0, "======================================="),
            TextLine("header", 0, "Generated on: " \o Strftime(now)),
            TextLine("header", 0, ""),
            TextLine("total", 0, "Total Recommendations: " \o ToString(Len(recommendations))),
            TextLine("header", 0, "") >>
           \o EntriesText("recommendations", recommendations)
    ELSE IF report_type = "Disease Diagnosis History"
    THEN << TextLine("header", 0, ""),
            TextLine("header", 0, "GREEN CURE - DISEASE DIAGNOSIS HISTORY"),
            TextLine("header", 0, "===================================="),
            TextLine("header", 0, "Generated on: " \o Strftime(now)),
            TextLine("header", 0, ""),
            TextLine("total", 0, "Total Diagnoses: " \o ToString(Len(diagnoses))),
            TextLine("header", 0, "") >>
           \o EntriesText("diagnoses", diagnoses)
    ELSE << TextLine("header", 0, ""),
            TextLine("header", 0, "GREEN CURE - " \o Upper(report_type)),
            TextLine("header", 0, Repeat("=", Len(report_type) + 15)),
            TextLine("header", 0, "Generated on: " \o Strftime(now)),
            TextLine("header", 0, ""),
            TextLine("header", 0, "This report type is being developed."),
            TextLine("header", 0,
                     "Please use the Comprehensive Farm Report for detailed information."),
            TextLine("header", 0, ""),
            TextLine("header", 0, "Current Data Summary:"),
            TextLine("summary", 0,
                     "- Crop Recommendations: " \o ToString(Len(recommendations))),
            TextLine("summary", 0, "- Disease Diagnoses: " \o ToString(Len(diagnoses))),
            TextLine("summary", 0, "- Soil Analyses: " \o ToString(Len(soil_analyses))),
            TextLine("summary", 0,
                     "- Weather Advisories: " \o ToString(Len(weather_advisories))),
            TextLine("summary", 0, "- Market Analyses: " \o ToString(Len(market_analyses))) >>

\* what the Reports page holds after generate_specific_report returned
TextOutcome(report_type, now) ==
    [status |-> "text", path |-> "", lines |-> SpecificReport(report_type, now),
     message |-> ""]

\* mutant of generate_specific_report: the entries reported are taken off
\* the history
generate_specific_report_draining(report_type) ==
    /\ \E now \in Now :
          /\ clock' = now
          /\ report' = TextOutcome(report_type, now)
    /\ recommendations' = <<>>
    /\ UNCHANGED <<diagnoses, soil_analyses, weather_advisories, market_analyses>>
    /\ UNCHANGED genVars

generate_specific_report(report_type) ==
    /\ \E now \in Now :
          /\ clock' = now
          /\ report' = TextOutcome(report_type, now)
    /\ UNCHANGED <<recommendations, diagnoses, soil_analyses, weather_advisories,
                   market_analyses>>
    /\ UNCHANGED genVars

(***************************************************************************)
(* Specifications.                                                         *)
(***************************************************************************)
NoReport == [status |-> "none", path |-> "", lines |-> <<>>, message |-> ""]

NoRun == [option |-> "", form |-> JNull]

\* one slot with a secret, one with an empty secret, one unset, one with a secret
MixedEnvironment ==
    JObj(<< <<"GROQ_API_KEY_1", JStr("gsk_one")>>, <<"GROQ_API_KEY_2", JStr("")>>,
            <<"GROQ_API_KEY_4", JStr("gsk_four")>> >>)

\* a generator built from a slot with a secret, and an empty session store
Init ==
    /\ kind = "crop"
    /\ pc = "idle"
    /\ attempt = 0
    /\ calls = 0
    /\ replies = <<>>
    /\ lastError = NoError
    /\ record = JNull
    /\ error = NoError
    /\ recommendations = <<>>
    /\ diagnoses = <<>>
    /\ soil_analyses = <<>>
    /\ weather_advisories = <<>>
    /\ market_analyses = <<>>
    /\ clock = 0
    /\ report = NoReport
    /\ environ = MixedEnvironment
    /\ ai = Built
    /\ has_manager = TRUE
    /\ ui = "idle"
    /\ run = NoRun
    /\ shown = ""
    /\ others = <<>>

\* the names a caller may hand to GreenCureAI(...): None, "", and slot names
ApiKeyNames ==
    { JNull, JStr(""), JStr("GROQ1"), JStr("GROQ2"), JStr("GROQ3"), JStr("GROQ4"),
      JStr("GROQ5") }

\* the generator alone: any sequence of method calls against any endpoint
NextGen ==
    \/ /\ pc \in {"idle", "unbuilt"}
       /\ \E name \in ApiKeyNames : Construct(name)
       /\ UNCHANGED <<storeVars, uiVars, others>>
    \/ (\E k \in Kinds : Enter(k)) /\ UNCHANGED <<buildVars, uiVars, others>>
    \/ get_crop_recommendation
    \/ diagnose_crop_disease
    \/ analyze_soil_conditions
    \/ get_weather_advisory
    \/ analyze_market_conditions

SpecGen == Init /\ [][NextGen]_vars

\* dictionaries handed to the add_* methods
Dict1(k1, v1) == JObj(<< <<k1, JStr(v1)>> >>)
Dict2(k1, v1, k2, v2) == JObj(<< <<k1, JStr(v1)>>, <<k2, JStr(v2)>> >>)

RecommendationInputs ==
    { SetKey(Dict2("crop_name", "Rice", "planting_season", "Kharif"),
             "expected_yield", JStr("25 quintals per acre")),
      Dict2("crop_name", "Maize", "planting_season", "Rabi") }
DiagnosisInputs ==
    { Dict2("disease_name", "Leaf blast", "severity", "High"),
      Dict2("disease_name", "Rust", "severity", "Low") }
SoilInputs == { Dict1("soil_type", "Loamy") }
WeatherInputs == { Dict1("conditions", "Heavy rain") }
MarketInputs ==
    { Dict1("crop_type", "Rice"),
      Dict2("timestamp", "1999-12-31 23:59:59", "crop_type", "Rice") }

\* the report types of the Reports page that give a text report
TextReportTypes ==
    { "Crop Recommendations Summary", "Disease Diagnosis History",
      "Soil Analysis Summary", "Weather Advisory Log", "Market Analysis Report" }

\* the session store alone: any sequence of appends and report requests
NextStore ==
    \/ /\ TotalEntries < MaxStored
       /\ \E data \in RecommendationInputs : add_recommendation(data)
       /\ UNCHANGED <<buildVars, uiVars, others>>
    \/ /\ TotalEntries < MaxStored
       /\ \E data \in DiagnosisInputs : add_diagnosis(data)
       /\ UNCHANGED <<buildVars, uiVars, others>>
    \/ /\ TotalEntries < MaxStored
       /\ \E data \in SoilInputs : add_soil_analysis(data)
       /\ UNCHANGED <<buildVars, uiVars, others>>
    \/ /\ TotalEntries < MaxStored
       /\ \E data \in WeatherInputs : add_weather_advisory(data)
       /\ UNCHANGED <<buildVars, uiVars, others>>
    \/ /\ TotalEntries < MaxStored
       /\ \E data \in MarketInputs : add_market_analysis(data)
       /\ UNCHANGED <<buildVars, uiVars, others>>
    \/ generate_comprehensive_report /\ UNCHANGED <<buildVars, uiVars, others>>
    \/ /\ \E report_type \in TextReportTypes : generate_specific_report(report_type)
       /\ UNCHANGED <<buildVars, uiVars, others>>

SpecStore == Init /\ [][NextStore]_vars

\* the two histories the comprehensive report reads, grown further
NextReport ==
    \/ /\ TotalEntries < MaxEntries
       /\ \E data \in RecommendationInputs : add_recommendation(data)
       /\ UNCHANGED <<buildVars, uiVars, others>>
    \/ /\ TotalEntries < MaxEntries
       /\ \E data \in DiagnosisInputs : add_diagnosis(data)
       /\ UNCHANGED <<buildVars, uiVars, others>>
    \/ generate_comprehensive_report /\ UNCHANGED <<buildVars, uiVars, others>>
    \/ /\ \E report_type \in {"Crop Recommendations Summary", "Disease Diagnosis History"} :
             generate_specific_report(report_type)
       /\ UNCHANGED <<buildVars, uiVars, others>>

SpecReport == Init /\ [][NextReport]_vars

(***************************************************************************)
(* app.py: the pages.  Every interaction of the user reruns main(); a run  *)
(* that reaches a generator method stays "calling" while the retry loop    *)
(* takes its steps and then goes on behind the call.                       *)
(***************************************************************************)
menu_options ==
    { "Dashboard", "Crop Recommendations", "Disease Diagnosis", "Soil Analysis",
      "Weather Advisory", "Market Analysis", "Farm Analytics", "Reports" }

api_keys == { "GROQ1", "GROQ2", "GROQ3", "GROQ4" }

\* the widget values of one page: its text and select inputs, and its button
Form(submitted, inputs) == [submitted |-> submitted, inputs |-> inputs]
Input(form, name) == Get(form.inputs, name, JNull)
Attr(rec, name) == Get(rec, name, JNull)

\* mutant of SessionManager: main() stores a new GreenCureManager on every run
SessionManager_fresh(history) == <<>>

\* `if 'green_cure_manager' not in st.session_state:` a new manager's empty
\* list, else the list of the manager the session holds
SessionManager(history) == IF has_manager THEN history ELSE <<>>

\* the run ends having shown `text`; the generator built by the run is idle
Finish(api, text) ==
    /\ shown' = text
    /\ ui' = "idle"
    /\ run' = NoRun
    /\ Construct(JStr(api))

\* the run reaches `ai_assistant.<method of k>(...)` inside the page's try
Call(k, option, api, form) ==
    /\ Called(k)
    /\ ai' = Built
    /\ ui' = "calling"
    /\ run' = [option |-> option, form |-> form]
    /\ shown' = ""

display_dashboard(api) == Finish(api, "")
display_farm_analytics(api) == Finish(api, "")

display_crop_recommendations(api, form) ==
    IF ~form.submitted THEN Finish(api, "")
    ELSE IF ~Truthy(Input(form, "location"))
    THEN Finish(api, "Please enter your location")
    ELSE Call("crop", "Crop Recommendations", api, form)

display_disease_diagnosis(api, form) ==
    IF ~form.submitted THEN Finish(api, "")
    ELSE IF ~Truthy(Input(form, "crop_type")) \/ ~Truthy(Input(form, "symptoms"))
    THEN Finish(api, "Please fill in all required fields")
    ELSE Call("disease", "Disease Diagnosis", api, form)

\* mutant of display_soil_analysis: the region is not looked at
display_soil_analysis_unchecked(api, form) ==
    IF ~form.submitted THEN Finish(api, "")
    ELSE Call("soil", "Soil Analysis", api, form)

display_soil_analysis(api, form) ==
    IF ~form.submitted THEN Finish(api, "")
    ELSE IF ~Truthy(Input(form, "region"))
    THEN Finish(api, "Please enter your region")
    ELSE Call("soil", "Soil Analysis", api, form)

display_weather_advisory(api, form) ==
    IF ~form.submitted THEN Finish(api, "")
    ELSE IF ~Truthy(Input(form, "location")) \/ ~Truthy(Input(form, "current_weather"))
    THEN Finish(api, "Please fill in all required fields")
    ELSE Call("weather", "Weather Advisory", api, form)

\* ai_assistant.get_market_analysis: GreenCureAI defines no such method, the
\* AttributeError is caught by the page's `except Exception as e`
display_market_analysis(api, form) ==
    IF ~form.submitted THEN Finish(api, "")
    ELSE IF ~Truthy(Input(form, "crop_type")) \/ ~Truthy(Input(form, "location"))
    THEN Finish(api, "Please fill in all required fields")
    ELSE Finish(api, "Error in market analysis: 'GreenCureAI' object has no "
                       \o "attribute 'get_market_analysis'")

\* the Reports page: the comprehensive document, or one of the text reports
display_reports(api, form) ==
    /\ Construct(JStr(api))
    /\ ui' = "idle"
    /\ run' = NoRun
    /\ IF ~form.submitted
       THEN shown' = "" /\ UNCHANGED <<clock, report>>
       ELSE IF Input(form, "report_type") = JStr("Comprehensive Farm Report")
       THEN \E now \in Now, failure \in ExportFailures :
               /\ clock' = now
               /\ report' = ReportOutcome(now, failure)
               /\ shown' = IF failure = ""
                           THEN "Comprehensive report generated successfully!"
                           ELSE "Error generating report: " \o failure
       ELSE \E now \in Now :
               /\ clock' = now
               /\ report' = TextOutcome(Input(form, "report_type").s, now)
               /\ shown' = "Report generated successfully!"

\* main(): the manager of the session, the generator of the run, the page
main(option, api, form) ==
    /\ ui = "idle"
    /\ has_manager' = TRUE
    /\ recommendations' = SessionManager(recommendations)
    /\ diagnoses' = SessionManager(diagnoses)
    /\ soil_analyses' = SessionManager(soil_analyses)
    /\ weather_advisories' = SessionManager(weather_advisories)
    /\ market_analyses' = SessionManager(market_analyses)
    /\ IF GreenCureAI_init(JStr(api), environ) # NoError
       THEN /\ Finish(api, "Please check your API keys in the .env file")
            /\ UNCHANGED <<clock, report>>
       ELSE CASE option = "Crop Recommendations" ->
                   display_crop_recommendations(api, form) /\ UNCHANGED <<clock, report>>
              [] option = "Disease Diagnosis" ->
                   display_disease_diagnosis(api, form) /\ UNCHANGED <<clock, report>>
              [] option = "Soil Analysis" ->
                   display_soil_analysis(api, form) /\ UNCHANGED <<clock, report>>
              [] option = "Weather Advisory" ->
                   display_weather_advisory(api, form) /\ UNCHANGED <<clock, report>>
              [] option = "Market Analysis" ->
                   display_market_analysis(api, form) /\ UNCHANGED <<clock, report>>
              [] option = "Reports" -> display_reports(api, form)
              [] option = "Farm Analytics" ->
                   display_farm_analytics(api) /\ UNCHANGED <<clock, report>>
              [] OTHER -> display_dashboard(api) /\ UNCHANGED <<clock, report>>
    /\ UNCHANGED <<environ, others>>

\* the dictionaries the pages hand to the manager
recommendation_data(form, recommendation) ==
    JObj(<< <<"location", Input(form, "location")>>,
            <<"soil_type", Input(form, "soil_type")>>,
            <<"season", Input(form, "season")>>,
            <<"farm_size", Input(form, "farm_size")>>,
            <<"crop_name", Attr(recommendation, "crop_name")>>,
            <<"planting_season", Attr(recommendation, "planting_season")>>,
            <<"expected_yield", Attr(recommendation, "expected_yield")>>,
            <<"market_value", Attr(recommendation, "market_value")>>,
            <<"care_instructions", Attr(recommendation, "care_instructions")>> >>)

diagnosis_data(form, diagnosis) ==
    JObj(<< <<"crop_type", Input(form, "crop_type")>>,
            <<"region", Input(form, "region")>>,
            <<"symptoms_described", Input(form, "symptoms")>>,
            <<"disease_name", Attr(diagnosis, "disease_name")>>,
            <<"severity", Attr(diagnosis, "severity")>>,
            <<"symptoms", Attr(diagnosis, "symptoms")>>,
            <<"treatment", Attr(diagnosis, "treatment")>>,
            <<"prevention", Attr(diagnosis, "prevention")>> >>)

soil_data(form, analysis) ==
    JObj(<< <<"region", Input(form, "region")>>,
            <<"ph_level_input", Input(form, "ph_level")>>,
            <<"organic_matter", Input(form, "organic_matter")>>,
            <<"drainage", Input(form, "drainage")>>,
            <<"soil_type", Attr(analysis, "soil_type")>>,
            <<"ph_analysis", Attr(analysis, "ph_level")>>,
            <<"nutrient_status", Attr(analysis, "nutrient_status")>>,
            <<"recommendations", Attr(analysis, "recommendations")>>,
            <<"suitable_crops", Attr(analysis, "suitable_crops")>> >>)

weather_data(form, advisory) ==
    JObj(<< <<"location", Input(form, "location")>>,
            <<"current_weather", Input(form, "current_weather")>>,
            <<"crop_stage", Input(form, "crop_stage")>>,
            <<"conditions", Attr(advisory, "current_conditions")>>,
            <<"farming_impact", Attr(advisory, "farming_impact")>>,
            <<"recommendations", Attr(advisory, "recommendations")>>,
            <<"alerts", Attr(advisory, "alerts")>> >>)

\* mutant of Returned: the page goes on while the call is still in its loop
Returned_early(k, text) ==
    /\ ui = "calling"
    /\ pc \in {"attempting", "returned"}
    /\ kind = k
    /\ ui' = "idle"
    /\ run' = NoRun
    /\ shown' = text
    /\ UNCHANGED <<buildVars, has_manager, others>>

\* the page goes on behind a generator call that returned `record`
Returned(k, text) ==
    /\ ui = "calling"
    /\ pc = "returned"
    /\ kind = k
    /\ ui' = "idle"
    /\ run' = NoRun
    /\ shown' = text
    /\ UNCHANGED <<buildVars, has_manager, others>>

crop_recommendation_returned ==
    /\ Returned("crop", "Recommendations Generated Successfully!")
    /\ add_recommendation(recommendation_data(run.form, record))

disease_diagnosis_returned ==
    /\ Returned("disease", "Disease Diagnosis Complete!")
    /\ add_diagnosis(diagnosis_data(run.form, record))

soil_analysis_returned ==
    /\ Returned("soil", "Soil Analysis Complete!")
    /\ add_soil_analysis(soil_data(run.form, record))

weather_advisory_returned ==
    /\ Returned("weather", "Weather Advisory Generated!")
    /\ add_weather_advisory(weather_data(run.form, record))

\* the st.error of the page's `except Exception as e`
PageError(k, e) ==
    (CASE k = "crop" -> "Error generating recommendations: "
       [] k = "disease" -> "Error in diagnosis: "
       [] k = "soil" -> "Error in soil analysis: "
       [] k = "weather" -> "Error generating weather advisory: "
       [] OTHER -> "Error in market analysis: ") \o e.msg

\* the page's except clause catches what the generator raised
generator_raised ==
    /\ ui = "calling"
    /\ pc = "raised"
    /\ ui' = "idle"
    /\ run' = NoRun
    /\ shown' = PageError(kind, error)
    /\ UNCHANGED <<genVars, storeVars, buildVars, has_manager, others>>

\* what the user can enter on each page
TextInputs == { "", "Guna, Madhya Pradesh" }

\* a page whose button was not pressed, whatever its inputs hold
Untouched == Form(FALSE, JObj(<<>>))

CropForms ==
    { Untouched } \cup
    { Form(TRUE, JObj(<< <<"location", JStr(l)>>, <<"soil_type", JStr("Loamy")>>,
                         <<"season", JStr("Kharif (Monsoon)")>>,
                         <<"farm_size", JStr("Small (1-2 hectares)")>> >>)) :
        l \in TextInputs }
DiseaseForms ==
    { Untouched } \cup
    { Form(TRUE, JObj(<< <<"crop_type", JStr("Wheat")>>, <<"region", JStr("")>>,
                         <<"symptoms", JStr(x)>> >>)) :
        x \in { "", "yellow spots" } }
SoilForms ==
    { Untouched } \cup
    { Form(TRUE, JObj(<< <<"ph_level", JNum("7.0")>>,
                         <<"organic_matter", JStr("Medium (1.0-3.0%)")>>,
                         <<"drainage", JStr("Fair")>>, <<"region", JStr(l)>> >>)) :
        l \in TextInputs }
WeatherForms ==
    { Untouched } \cup
    { Form(TRUE, JObj(<< <<"location", JStr(l)>>, <<"current_weather", JStr(w)>>,
                         <<"crop_stage", JStr("Sowing/Planting")>> >>)) :
        l \in TextInputs, w \in { "", "Heavy rainfall expected" } }
MarketForms ==
    { Untouched } \cup
    { Form(TRUE, JObj(<< <<"crop_type", JStr("Rice")>>, <<"location", JStr(l)>>,
                         <<"quantity", JStr("Small (< 10 quintals)")>> >>)) :
        l \in TextInputs }
ReportForms ==
    { Untouched } \cup
    { Form(TRUE, JObj(<< <<"report_type", JStr(t)>> >>)) :
        t \in { "Comprehensive Farm Report", "Soil Analysis Summary" } }

Forms(option) ==
    CASE option = "Crop Recommendations" -> CropForms
      [] option = "Disease Diagnosis" -> DiseaseForms
      [] option = "Soil Analysis" -> SoilForms
      [] option = "Weather Advisory" -> WeatherForms
      [] option = "Market Analysis" -> MarketForms
      [] option = "Reports" -> ReportForms
      [] OTHER -> { Untouched }

\* what the endpoint does during a session: text that is no JSON, or one
\* object of the asked shape
SessionReplies(k) == { GarbageReply(FALSE), JsonReply(Sample(k, "a")) }

\* a browser session before its first run
NoAi == [state |-> "none", err |-> NoError]
Environments == { MixedEnvironment, JObj(<<>>) }

InitSession ==
    /\ kind = "crop"
    /\ pc = "unbuilt"
    /\ attempt = 0
    /\ calls = 0
    /\ replies = <<>>
    /\ lastError = NoError
    /\ record = JNull
    /\ error = NoError
    /\ recommendations = <<>>
    /\ diagnoses = <<>>
    /\ soil_analyses = <<>>
    /\ weather_advisories = <<>>
    /\ market_analyses = <<>>
    /\ clock = 0
    /\ report = NoReport
    /\ environ \in Environments
    /\ ai = NoAi
    /\ has_manager = FALSE
    /\ ui = "idle"
    /\ run = NoRun
    /\ shown = ""
    /\ others = <<>>

ServicePages ==
    { "Crop Recommendations", "Disease Diagnosis", "Soil Analysis",
      "Weather Advisory", "Market Analysis" }

\* one session: runs of main() and the steps of the calls they make, all
\* within MaxSessionClock seconds
NextSession ==
    \/ \E option \in menu_options, api \in api_keys : \E form \in Forms(option) :
          /\ (option \in ServicePages /\ form.submitted) => TotalEntries < MaxSubmitted
          /\ main(option, api, form)
          /\ clock' <= MaxSessionClock
    \/ \E r \in SessionReplies("crop") : Iteration("crop", r)
    \/ \E r \in SessionReplies("disease") : Iteration("disease", r)
    \/ \E r \in SessionReplies("soil") : Iteration("soil", r)
    \/ \E r \in SessionReplies("weather") : Iteration("weather", r)
    \/ crop_recommendation_returned /\ clock' <= MaxSessionClock
    \/ disease_diagnosis_returned /\ clock' <= MaxSessionClock
    \/ soil_analysis_returned /\ clock' <= MaxSessionClock
    \/ weather_advisory_returned /\ clock' <= MaxSessionClock
    \/ generator_raised

SpecSession == InitSession /\ [][NextSession]_vars

(***************************************************************************)
(* Two browser sessions of one server process.  Streamlit keeps one        *)
(* st.session_state per session; the variables above are the session      *)
(* state of one browser, `others` holds that of another.                   *)
(***************************************************************************)
\* GreenCureManager.__init__: five new lists, attributes of the instance
GreenCureManager_init ==
    [recommendations |-> <<>>, diagnoses |-> <<>>, soil_analyses |-> <<>>,
     weather_advisories |-> <<>>, market_analyses |-> <<>>]

\* the st.session_state of a browser that has not run main() yet
NewSession == [has_manager |-> FALSE, manager |-> GreenCureManager_init]

OtherEntries(i) ==
    Len(others[i].manager.recommendations) + Len(others[i].manager.diagnoses)
      + Len(others[i].manager.soil_analyses)
      + Len(others[i].manager.weather_advisories)
      + Len(others[i].manager.market_analyses)

\* mutant of other_main: the manager is one object of the process, which
\* the first run of a new session replaces
other_main_singleton(i) ==
    /\ i \in 1..Len(others)
    /\ others' = [others EXCEPT ![i].has_manager = TRUE]
    /\ recommendations' = IF others[i].has_manager THEN recommendations ELSE <<>>
    /\ diagnoses' = IF others[i].has_manager THEN diagnoses ELSE <<>>
    /\ soil_analyses' = IF others[i].has_manager THEN soil_analyses ELSE <<>>
    /\ weather_advisories' = IF others[i].has_manager THEN weather_advisories ELSE <<>>
    /\ market_analyses' = IF others[i].has_manager THEN market_analyses ELSE <<>>
    /\ UNCHANGED <<genVars, clock, report, buildVars, uiVars>>

\* a run of main() in the other session i: `if 'green_cure_manager' not in
\* st.session_state:` looks at, and assigns to, the state of that session
other_main(i) ==
    /\ i \in 1..Len(others)
    /\ others' = [others EXCEPT ![i] =
                     IF @.has_manager THEN @
                     ELSE [has_manager |-> TRUE, manager |-> GreenCureManager_init]]
    /\ UNCHANGED <<genVars, storeVars, buildVars, uiVars>>

\* a page of the other session i hands data to add_<name> of its manager
other_add(i, name, data) ==
    /\ i \in 1..Len(others)
    /\ others[i].has_manager
    /\ \E now \in Now :
          /\ clock' = now
          /\ others' = [others EXCEPT ![i].manager[name] =
                           Append(@, Stamped(data, now))]
    /\ UNCHANGED <<genVars, histories, report, buildVars, uiVars>>

\* the histories a page of the application appends to, and what it hands over
PageHistories == { "recommendations", "diagnoses", "soil_analyses", "weather_advisories" }
PageInputs(name) ==
    CASE name = "recommendations" -> RecommendationInputs
      [] name = "diagnoses" -> DiagnosisInputs
      [] name = "soil_analyses" -> SoilInputs
      [] OTHER -> WeatherInputs

\* a run of main() in this session that ends without a submitted form
session_run ==
    \E option \in menu_options, api \in api_keys : main(option, api, Untouched)

\* a run of this session whose page hands a record to its manager
session_add ==
    /\ has_manager
    /\ ui = "idle"
    /\ \/ \E data \in RecommendationInputs : add_recommendation(data)
       \/ \E data \in DiagnosisInputs : add_diagnosis(data)
       \/ \E data \in SoilInputs : add_soil_analysis(data)
       \/ \E data \in WeatherInputs : add_weather_advisory(data)
    /\ UNCHANGED <<buildVars, uiVars, others>>

InitSessions ==
    /\ kind = "crop"
    /\ pc = "unbuilt"
    /\ attempt = 0
    /\ calls = 0
    /\ replies = <<>>
    /\ lastError = NoError
    /\ record = JNull
    /\ error = NoError
    /\ recommendations = <<>>
    /\ diagnoses = <<>>
    /\ soil_analyses = <<>>
    /\ weather_advisories = <<>>
    /\ market_analyses = <<>>
    /\ clock = 0
    /\ report = NoReport
    /\ environ = MixedEnvironment
    /\ ai = NoAi
    /\ has_manager = FALSE
    /\ ui = "idle"
    /\ run = NoRun
    /\ shown = ""
    /\ others = << NewSession >>

\* any interleaving of the runs of the two sessions, MaxSubmitted entries
\* stored in all
NextSessions ==
    \/ session_run
    \/ /\ TotalEntries + OtherEntries(1) < MaxSubmitted
       /\ session_add
       /\ clock' <= MaxSessionClock
    \/ other_main(1)
    \/ /\ TotalEntries + OtherEntries(1) < MaxSubmitted
       /\ \E name \in PageHistories : \E data \in PageInputs(name) :
             other_add(1, name, data)
       /\ clock' <= MaxSessionClock

SpecSessions == InitSessions /\ [][NextSessions]_vars

(***************************************************************************)
(* Properties of the generator.                                            *)
(***************************************************************************)
Failed(i) == ~AttemptOutcome(kind, replies[i]).ok
Accepted(i) == AttemptOutcome(kind, replies[i]).ok
LastReply == replies[Len(replies)]
Finished == pc \in {"returned", "raised"}

\* C1: for every kind and every k in 1..3, when the replies of attempts
\* 1..k-1 all fail and the reply of attempt k is a valid record, the call
\* has returned the record parsed from attempt k after exactly k remote
\* calls, and no further call is made.
C1_FirstAcceptedReplyReturned ==
    \A k \in 1..max_attempts :
        (/\ Len(replies) >= k
         /\ \A i \in 1..(k - 1) : Failed(i)
         /\ Accepted(k))
        => /\ pc = "returned"
           /\ record = AttemptOutcome(kind, replies[k]).rec
           /\ calls = k
           /\ Len(replies) = k

C1_Witness ==
    /\ kind = "soil"
    /\ pc = "returned"
    /\ calls = 3
    /\ Len(replies) = 3
    /\ replies[1].how = "garbage"
    /\ replies[2].how = "garbage"
    /\ replies[3] = JsonReply(Sample("soil", "B"))
    /\ record = Sample("soil", "B")

\* a JSON document that matches the schema of kind k: an object that has
\* every field, text where the schema says text, lists of text where it
\* says list
MatchesSchema(k, doc) ==
    /\ doc.t = "obj"
    /\ \A i \in 1..Len(Schema(k)) :
          LET f == Schema(k)[i]
              v == Get(doc, f.name, JNull)
          IN  /\ HasKey(doc, f.name)
              /\ IF f.type = "str" THEN v.t = "str"
                 ELSE /\ v.t = "list"
                      /\ \A j \in 1..Len(v.items) : v.items[j].t = "str"

RequiredNonEmpty(k, doc) ==
    /\ Get(doc, RequiredScalar(k), JNull).s # ""
    /\ Len(Get(doc, RequiredList(k), JNull).items) > 0

RoundTrip ==
    /\ pc = "returned"
    /\ calls = 1
    /\ \A i \in 1..Len(Schema(kind)) :
          Get(record, Schema(kind)[i].name, JNull)
            = Get(replies[1].body, Schema(kind)[i].name, JNull)

\* C2 as stated: when the first reply is a JSON object matching the target
\* schema, the call returns after exactly one remote call a record whose
\* every field equals the field of that object.
C2_SchemaMatchRoundTrip ==
    (/\ Len(replies) >= 1
     /\ replies[1].how = "json"
     /\ MatchesSchema(kind, replies[1].body))
    => RoundTrip

\* C2 amended: when the first reply is a JSON object matching the target
\* schema whose required scalar and required list are both non-empty, the
\* call returns after exactly one remote call a record whose every field
\* equals the field of that object.
C2_AcceptedObjectRoundTrip ==
    (/\ Len(replies) >= 1
     /\ replies[1].how = "json"
     /\ MatchesSchema(kind, replies[1].body)
     /\ RequiredNonEmpty(kind, replies[1].body))
    => RoundTrip

C2_Witness ==
    /\ kind = "market"
    /\ pc = "returned"
    /\ calls = 1
    /\ replies = <<JsonReply(Sample("market", "B"))>>
    /\ Get(record, "crop_name", JNull) = JStr("B crop_name")
    /\ Get(record, "selling_tips", JNull) = JList(<<JStr("step 1")>>)

\* C3: get_crop_recommendation never raises, and when all three attempts
\* fail, whatever the mix of failures, it has returned the fixed fallback
\* record, crop_name "Wheat", after exactly 3 remote calls.
C3_CropFallback ==
    kind = "crop" =>
        /\ pc # "raised"
        /\ error = NoError
        /\ (/\ Len(replies) = max_attempts
            /\ \A i \in 1..max_attempts : Failed(i))
           => /\ pc = "returned"
              /\ record = FallbackRecommendation
              /\ Get(record, "crop_name", JNull) = JStr("Wheat")
              /\ calls = 3

C3_Witness ==
    /\ kind = "crop"
    /\ pc = "returned"
    /\ calls = 3
    /\ replies[1].how = "throw"
    /\ replies[2].how = "garbage"
    /\ replies[3] = JsonReply(SetKey(Sample("crop", "A"), "care_instructions", ListOfLen(0)))
    /\ Get(record, "crop_name", JNull) = JStr("Wheat")

\* C4: for the disease, soil, weather and market kinds, when every attempt
\* gets malformed text, the call has raised a terminal error after exactly 3
\* remote calls, has returned no record, and the message of the error names
\* the kind and the attempt count 3.
C4_TerminalErrorNamesKindAndCount ==
    (/\ kind # "crop"
     /\ Len(replies) = max_attempts
     /\ \A i \in 1..max_attempts : replies[i].how = "garbage")
    => /\ pc = "raised"
       /\ calls = 3
       /\ record = JNull
       /\ error.exc = "RuntimeError"
       /\ error.attempts = 3
       /\ error.what = (CASE kind = "disease" -> "disease diagnosis"
                          [] kind = "soil" -> "soil analysis"
                          [] kind = "weather" -> "weather advisory"
                          [] OTHER -> "market analysis")
       /\ error.msg = "Failed to generate " \o error.what \o " after 3 attempts: "
                        \o error.cause

C4_Witness ==
    /\ kind = "soil"
    /\ pc = "raised"
    /\ calls = 3
    /\ \A i \in 1..3 : replies[i].how = "garbage"
    /\ error.msg = "Failed to generate soil analysis after 3 attempts: Invalid json output"

\* C5: the terminal error of the disease, soil, weather and market kinds
\* carries the message of the failure of the third attempt, also when the
\* three attempts failed for different reasons.
C5_TerminalErrorCarriesLastFailure ==
    pc = "raised" =>
        /\ kind # "crop"
        /\ Len(replies) = max_attempts
        /\ ~AttemptOutcome(kind, replies[max_attempts]).ok
        /\ error.cause = AttemptOutcome(kind, replies[max_attempts]).err.msg
        /\ lastError = AttemptOutcome(kind, replies[max_attempts]).err

C5_Witness ==
    /\ kind = "weather"
    /\ pc = "raised"
    /\ replies[1] = ThrowReply("Connection error")
    /\ replies[2] = GarbageReply(FALSE)
    /\ replies[3] = JsonReply(SetKey(Sample("weather", "A"), "current_conditions", JStr("")))
    /\ error.cause = "Invalid weather advisory format"

\* C6: every generator call, whatever the endpoint does on each attempt,
\* terminates (each remote call returning), having issued at least 1 and at
\* most 3 remote calls: while the call is attempting, an attempt can be made,
\* every attempt is one more remote call and either ends the call or moves to
\* the next of at most 3 attempts, and a call that has ended made 1 to 3 calls.
C6_TerminatesWithinThreeCalls ==
    /\ [](/\ calls <= max_attempts
          /\ Finished => calls \in 1..max_attempts
          /\ pc = "attempting" =>
                /\ calls = attempt
                /\ attempt < max_attempts
                /\ ENABLED Iteration(kind, GarbageReply(FALSE)))
    /\ [][pc = "attempting" =>
            /\ calls' = calls + 1
            /\ pc' \in {"returned", "raised"} \/ (pc' = "attempting" /\ attempt' = attempt + 1)]_vars

C6_Witness ==
    /\ kind = "weather"
    /\ pc = "raised"
    /\ calls = 3
    /\ replies[1].how = "throw"
    /\ replies[2].how = "json"
    /\ replies[3].how = "garbage"

\* the required scalar and the required list of record rec are non-empty
RequiredFieldsNonEmpty(k, rec) ==
    /\ Get(rec, RequiredScalar(k), JNull).t = "str"
    /\ Get(rec, RequiredScalar(k), JNull).s # ""
    /\ Get(rec, RequiredList(k), JNull).t = "list"
    /\ Len(Get(rec, RequiredList(k), JNull).items) > 0

\* C7: every record a generator method returns, the crop fallback included,
\* has its required scalar and its required list non-empty; a reply that
\* parses to a record with either one empty is not returned and counts as a
\* failed attempt.
C7_ReturnedRecordsHaveRequiredFields ==
    /\ pc = "returned" => RequiredFieldsNonEmpty(kind, record)
    /\ \A i \in 1..Len(replies) :
          LET parsed == AttemptParse(kind, replies[i])
          IN  (parsed.ok /\ ~RequiredFieldsNonEmpty(kind, parsed.rec))
              => /\ record # parsed.rec
                 /\ i = Len(replies) =>
                       IF i < max_attempts
                       THEN pc = "attempting" /\ attempt = i
                       ELSE pc = "raised" \/ record = FallbackRecommendation

C7_Witness ==
    /\ kind = "disease"
    /\ pc = "returned"
    /\ calls = 2
    /\ replies[1] = JsonReply(SetKey(Sample("disease", "A"), "treatment", ListOfLen(0)))
    /\ replies[2] = JsonReply(Sample("disease", "A"))

\* the JSON object the accepted record was parsed from
SourceObject(k, r) ==
    IF k = "crop" /\ r.body.t = "list" THEN r.body.items[1] ELSE r.body

\* C8: in every accepted record the name-like scalar (crop_name,
\* disease_name, soil_type, current_conditions) is a non-empty text; when the
\* reply gave it as a sub-object, it is the sub-object's "description" value
\* if that key is present, and the text form of the whole sub-object if not.
C8_NameFieldCoercion ==
    (pc = "returned" /\ Accepted(Len(replies))) =>
        LET raw == Get(SourceObject(kind, LastReply), RequiredScalar(kind), JNull)
            name == Get(record, RequiredScalar(kind), JNull)
        IN  /\ name.t = "str"
            /\ name.s # ""
            /\ raw.t = "obj" =>
                  IF HasKey(raw, "description")
                  THEN name = Get(raw, "description", JNull)
                  ELSE name = JStr(PyStr(raw))
            /\ raw = Description(JStr("Leaf blast")) => name = JStr("Leaf blast")

C8_Witness ==
    /\ kind = "weather"
    /\ pc = "returned"
    /\ calls = 1
    /\ Get(replies[1].body, "current_conditions", JNull) = JObj(<< <<"name", JStr("Rice")>> >>)
    /\ Get(record, "current_conditions", JNull) = JStr("{'name': 'Rice'}")

\* C9: when a crop-recommendation reply is a JSON array, the record is parsed
\* from the first element alone, and a market_value sub-object of that
\* element with current_price p and demand d becomes the text "p, d".
C9_ArrayFirstElementMarketValue ==
    (/\ kind = "crop"
     /\ pc = "returned"
     /\ Accepted(Len(replies))
     /\ LastReply.body.t = "list")
    => LET first == LastReply.body.items[1]
           mv == Get(first, "market_value", JNull)
       IN  /\ \A f \in {"crop_name", "planting_season", "care_instructions", "expected_yield"} :
                 Get(record, f, JNull) = Get(first, f, JNull)
           /\ mv.t = "str" => Get(record, "market_value", JNull) = mv
           /\ (mv.t = "obj" /\ HasKey(mv, "current_price") /\ HasKey(mv, "demand"))
              => Get(record, "market_value", JNull)
                   = JStr(PyStr(Get(mv, "current_price", JNull)) \o ", "
                            \o PyStr(Get(mv, "demand", JNull)))

C9_Witness ==
    /\ kind = "crop"
    /\ pc = "returned"
    /\ calls = 1
    /\ LastReply.body.t = "list"
    /\ Get(LastReply.body.items[1], "market_value", JNull)
         = JObj(<< <<"current_price", JStr("₹2000")>>, <<"demand", JStr("high")>> >>)
    /\ Get(record, "market_value", JNull) = JStr("₹2000, high")

(***************************************************************************)
(* Properties of the session store and reporter.                           *)
(***************************************************************************)
History(section) == IF section = "recommendations" THEN recommendations ELSE diagnoses
NameKey(section) == IF section = "recommendations" THEN "crop_name" ELSE "disease_name"
NameLabel(section) == IF section = "recommendations" THEN "Crop: " ELSE "Disease: "

\* what the report draws for the entries of a section, in drawing order
EntryOps(section) ==
    SelectSeq(report.lines, LAMBDA op : op.section = section /\ op.entry > 0)

Min(a, b) == IF a < b THEN a ELSE b

\* C10: after n entries have been appended to a history the report has a
\* section for, that section lists exactly the min(n, 3) most recently
\* appended entries, in the order they were appended, oldest of them first.
C10_ReportListsLatestThree ==
    report.status = "pdf" =>
        \A section \in {"recommendations", "diagnoses"} :
            LET h == History(section)
                n == Len(h)
                m == Min(n, 3)
                ops == EntryOps(section)
            IN  /\ {ops[i].entry : i \in 1..Len(ops)} = 1..m
                /\ \A i, j \in 1..Len(ops) : i < j => ops[i].entry <= ops[j].entry
                /\ \A j \in 1..m :
                      LET e == h[n - m + j]
                          mine == SelectSeq(ops, LAMBDA op : op.entry = j)
                      IN  /\ \E i \in 1..Len(mine) :
                                mine[i].text = NameLabel(section)
                                                 \o Get(e, NameKey(section), JNull).s
                          /\ \E i \in 1..Len(mine) :
                                mine[i].text = "Timestamp: " \o Get(e, "timestamp", JNull).s
                          /\ [i \in 1..Len(mine) |-> mine[i].text] = EntryLines(section, j, e)

C10_Witness ==
    /\ report.status = "pdf"
    /\ Len(recommendations) = 4
    /\ [i \in 1..4 |-> Get(recommendations[i], "crop_name", JNull).s]
         = <<"Rice", "Maize", "Rice", "Maize">>
    /\ LET ops == EntryOps("recommendations")
       IN  /\ {ops[i].entry : i \in 1..Len(ops)} = {1, 2, 3}
           /\ \E i \in 1..Len(ops) : ops[i].entry = 1 /\ ops[i].text = "Crop: Maize"
           /\ \E i \in 1..Len(ops) : ops[i].entry = 2 /\ ops[i].text = "Crop: Rice"
           /\ \E i \in 1..Len(ops) : ops[i].entry = 3 /\ ops[i].text = "Crop: Maize"

(***************************************************************************)
(* Properties of the comprehensive document and of the histories.          *)
(***************************************************************************)
HistoryNames ==
    { "recommendations", "diagnoses", "soil_analyses", "weather_advisories",
      "market_analyses" }

Stored(name) ==
    CASE name = "recommendations" -> recommendations
      [] name = "diagnoses" -> diagnoses
      [] name = "soil_analyses" -> soil_analyses
      [] name = "weather_advisories" -> weather_advisories
      [] OTHER -> market_analyses

\* the entries the document numbers in the section of one history
SectionEntries(name) ==
    { report.lines[i].entry : i \in { j \in 1..Len(report.lines) :
                                        /\ report.lines[j].section = name
                                        /\ report.lines[j].entry > 0 } }

\* C11: the comprehensive document has, for each of the five histories that
\* holds at least one entry, a section listing that history's latest
\* min(n, 3) entries.
C11_SectionForEveryRecordedKind ==
    report.status = "pdf" =>
        \A name \in HistoryNames :
            Stored(name) # <<>> =>
                SectionEntries(name) = 1..Min(Len(Stored(name)), 3)

(***************************************************************************)
(* Properties of a session.                                                *)
(***************************************************************************)
KindOf(name) ==
    CASE name = "recommendations" -> "crop"
      [] name = "diagnoses" -> "disease"
      [] name = "soil_analyses" -> "soil"
      [] name = "weather_advisories" -> "weather"
      [] OTHER -> "market"

\* the keys of an entry that hold fields of the generator's record
RecordKeys(name) ==
    CASE name = "recommendations" ->
            << <<"crop_name", "crop_name">>, <<"planting_season", "planting_season">>,
               <<"expected_yield", "expected_yield">>, <<"market_value", "market_value">>,
               <<"care_instructions", "care_instructions">> >>
      [] name = "diagnoses" ->
            << <<"disease_name", "disease_name">>, <<"severity", "severity">>,
               <<"symptoms", "symptoms">>, <<"treatment", "treatment">>,
               <<"prevention", "prevention">> >>
      [] name = "soil_analyses" ->
            << <<"soil_type", "soil_type">>, <<"ph_analysis", "ph_level">>,
               <<"nutrient_status", "nutrient_status">>,
               <<"recommendations", "recommendations">>,
               <<"suitable_crops", "suitable_crops">> >>
      [] name = "weather_advisories" ->
            << <<"conditions", "current_conditions">>,
               <<"farming_impact", "farming_impact">>,
               <<"recommendations", "recommendations">>, <<"alerts", "alerts">> >>
      [] OTHER -> <<>>

\* the entry holds the fields of rec, key by key
HoldsRecord(name, entry, rec) ==
    \A i \in 1..Len(RecordKeys(name)) :
        /\ HasKey(entry, RecordKeys(name)[i][1])
        /\ HasKey(rec, RecordKeys(name)[i][2])
        /\ Get(entry, RecordKeys(name)[i][1], JNull) = Get(rec, RecordKeys(name)[i][2], JNull)

\* the step appends one entry to the history `name`
Appends(name) ==
    /\ Len(Stored(name)') = Len(Stored(name)) + 1
    /\ SubSeq(Stored(name)', 1, Len(Stored(name))) = Stored(name)

NewEntry(name) == Stored(name)'[Len(Stored(name)')]

\* the record in hand is the parse of the reply of the latest attempt
ParsedFromReply ==
    /\ pc = "returned"
    /\ replies # <<>>
    /\ Accepted(Len(replies))
    /\ record = AttemptOutcome(kind, LastReply).rec

\* the record in hand is the fallback handed back after three failed attempts
FallbackAfterExhaustion ==
    /\ pc = "returned"
    /\ kind = "crop"
    /\ Len(replies) = max_attempts
    /\ \A i \in 1..Len(replies) : Failed(i)
    /\ record = FallbackRecommendation

\* C12 as stated: whenever a history of the session changes, the step appends
\* one entry holding the record parsed from the reply of the generator call
\* that has just returned; entries have no other origin.
C12_EntriesOnlyFromParsedReplies ==
    [][\A name \in HistoryNames :
          Stored(name)' # Stored(name) =>
              /\ Appends(name)
              /\ kind = KindOf(name)
              /\ ParsedFromReply
              /\ HoldsRecord(name, NewEntry(name), record)]_vars

\* C12 amended: whenever a history of the session changes, the step appends
\* one entry holding the record the generator call has just returned, which
\* is the parse of a reply or, for the crop kind only, the fallback record
\* returned after three failed attempts.
C12_EntriesOnlyFromReturnedRecords ==
    [][\A name \in HistoryNames :
          Stored(name)' # Stored(name) =>
              /\ Appends(name)
              /\ kind = KindOf(name)
              /\ ParsedFromReply \/ FallbackAfterExhaustion
              /\ HoldsRecord(name, NewEntry(name), record)]_vars

\* a parsed recommendation and the fallback recommendation, both stored
C12_Witness ==
    /\ Len(recommendations) = 2
    /\ \E i, j \in 1..2 :
          /\ Get(recommendations[i], "crop_name", JNull) = JStr("Wheat")
          /\ Get(recommendations[j], "crop_name", JNull) = JStr("a crop_name")

IsPrefix(a, b) == Len(a) <= Len(b) /\ SubSeq(b, 1, Len(a)) = a

\* C13: across every step of a session (a run of main() for any page, form
\* and button, a step of a generator call, the page going on behind it) each
\* of the five histories is extended at its end or left as it is, and the
\* manager the session holds stays the one it holds.
C13_HistoriesAppendOnly ==
    [][/\ \A name \in HistoryNames : IsPrefix(Stored(name), Stored(name)')
       /\ has_manager => has_manager']_vars

\* two entries were stored, and a later run of main() produced the document
C13_Witness ==
    /\ has_manager
    /\ Len(recommendations) = 1
    /\ Len(diagnoses) = 1
    /\ report.status = "pdf"
    /\ shown = "Comprehensive report generated successfully!"

\* C14: a generation of the comprehensive document that fails (creating the
\* directory, saving the canvas) ends with the message "Error generating
\* report: <cause>", returns no path and saves no document, and the step
\* leaves the five histories as they were.
C14_ExportFailureIsCaught ==
    /\ [](report.status = "failed" =>
            /\ report.path = ""
            /\ report.lines = <<>>
            /\ \E failure \in ExportFailures \ {""} :
                  report.message = "Error generating report: " \o failure)
    /\ [][(report' # report /\ report'.status = "failed") =>
            UNCHANGED histories]_vars

\* a failed generation over a store that holds three entries
C14_Witness ==
    /\ report.status = "failed"
    /\ report.message = "Error generating report: [Errno 28] No space left on device"
    /\ TotalEntries = 3
    /\ soil_analyses # <<>>

\* the secret the environment holds for a slot name, None for any other name
SlotSecret(name) ==
    CASE name = JStr("GROQ1") -> Get(environ, "GROQ_API_KEY_1", JNull)
      [] name = JStr("GROQ2") -> Get(environ, "GROQ_API_KEY_2", JNull)
      [] name = JStr("GROQ3") -> Get(environ, "GROQ_API_KEY_3", JNull)
      [] name = JStr("GROQ4") -> Get(environ, "GROQ_API_KEY_4", JNull)
      [] OTHER -> JNull

NameText(name) == IF name = JNull THEN "None" ELSE name.s

\* C15: GreenCureAI(name) raises the ValueError "API key not found for
\* <name>" for every name that is absent, is no known slot, or whose secret
\* is unset or empty; a run of main() whose construction failed has issued
\* no remote call, is over, and has left the histories as they were.
C15_CredentialFailureStopsRun ==
    /\ [](\A name \in ApiKeyNames :
            SlotSecret(name) \in {JNull, JStr("")} =>
                GreenCureAI_init(name, environ)
                  = [exc |-> "ValueError",
                     msg |-> "API key not found for " \o NameText(name),
                     what |-> "", attempts |-> 0, cause |-> ""])
    /\ [](ai.state = "failed" =>
            /\ ai.err.exc = "ValueError"
            /\ pc = "unbuilt"
            /\ calls = 0
            /\ replies = <<>>
            /\ ui = "idle"
            /\ shown = "Please check your API keys in the .env file")
    /\ [][ai'.state = "failed" => UNCHANGED histories]_vars

\* a run with the slot of the empty secret selected, after two entries were stored
C15_Witness ==
    /\ ai.state = "failed"
    /\ ai.err.msg = "API key not found for GROQ2"
    /\ TotalEntries = 2
    /\ pc = "unbuilt"

(***************************************************************************)
(* Properties of what a caller of the generator observes.                  *)
(***************************************************************************)
\* C16: while a call is in its loop the caller has been handed nothing,
\* whatever attempts have failed; a finished call has handed over exactly one
\* of a record and an error; an error is handed over only by a non-crop
\* method and only after max_attempts failed attempts; and the outcome of a
\* finished call stays as it is until the next call.
C16_OnlyFinalOutcomeVisible ==
    /\ [](pc = "attempting" => record = JNull /\ error = NoError)
    /\ [](Finished => (record = JNull) # (error = NoError))
    /\ [](pc = "returned" => record # JNull)
    /\ [](pc = "raised" =>
            /\ kind # "crop"
            /\ Len(replies) = max_attempts
            /\ \A i \in 1..Len(replies) : Failed(i)
            /\ error.exc = "RuntimeError")
    /\ [][(Finished /\ pc' = pc) => (record' = record /\ error' = error)]_vars

\* two swallowed failures, then the record of the third reply
C16_Witness ==
    /\ pc = "returned"
    /\ kind = "weather"
    /\ Len(replies) = 3
    /\ Failed(1) /\ Failed(2) /\ Accepted(3)
    /\ replies[1].how = "throw"
    /\ replies[2].how = "json"
    /\ lastError # NoError
    /\ record # JNull
    /\ error = NoError

(***************************************************************************)
(* Properties of the five service pages.                                   *)
(***************************************************************************)
PageKind(option) ==
    CASE option = "Crop Recommendations" -> "crop"
      [] option = "Disease Diagnosis" -> "disease"
      [] option = "Soil Analysis" -> "soil"
      [] option = "Weather Advisory" -> "weather"
      [] OTHER -> "market"

HistoryOf(k) == CHOOSE name \in HistoryNames : KindOf(name) = k

\* the inputs the page's submit handler refuses to go on without
RequiredInputs(option) ==
    CASE option = "Crop Recommendations" -> { "location" }
      [] option = "Disease Diagnosis" -> { "crop_type", "symptoms" }
      [] option = "Soil Analysis" -> { "region" }
      [] option = "Weather Advisory" -> { "location", "current_weather" }
      [] OTHER -> { "crop_type", "location" }

ValidSubmission(option, form) ==
    /\ form.submitted
    /\ \A name \in RequiredInputs(option) : Truthy(Input(form, name))

\* C17: on each of the five service pages a submission with all required
\* inputs present puts the run into the generator call of the page's kind;
\* the run goes on behind a returned record by appending exactly one entry to
\* the history of that kind, the other four unchanged, and behind a terminal
\* error by leaving all five histories unchanged.
C17_ValidSubmissionAppendsOne ==
    [][/\ \A option \in ServicePages, api \in api_keys :
            \A form \in Forms(option) :
               ( /\ ValidSubmission(option, form)
                 /\ GreenCureAI_init(JStr(api), environ) = NoError
                 /\ main(option, api, form) )
               => /\ ui' = "calling"
                  /\ kind' = PageKind(option)
                  /\ pc' = "attempting"
       /\ (ui = "calling" /\ ui' = "idle" /\ pc = "returned") =>
             /\ Appends(HistoryOf(kind))
             /\ \A name \in HistoryNames \ {HistoryOf(kind)} :
                   Stored(name)' = Stored(name)
       /\ (ui = "calling" /\ ui' = "idle" /\ pc = "raised") =>
             UNCHANGED histories]_vars

(***************************************************************************)
(* The retry loop as a state machine.                                      *)
(***************************************************************************)
Attempting(n) == [state |-> "Attempting", n |-> n]
Succeeded == [state |-> "Succeeded", n |-> 0]
Exhausted == [state |-> "Exhausted", n |-> 0]
NotCalling == [state |-> "NotCalling", n |-> 0]

\* the state of the machine that the variables of a call stand for
MachineStateOf(p, a, k, reps) ==
    CASE p = "attempting" -> Attempting(a + 1)
      [] p = "returned" /\ reps # <<>> /\ AttemptOutcome(k, reps[Len(reps)]).ok -> Succeeded
      [] p \in {"returned", "raised"} -> Exhausted
      [] OTHER -> NotCalling

MachineState == MachineStateOf(pc, attempt, kind, replies)

\* the machine is in state m after the step
Becomes(m) ==
    \E p \in {pc'}, a \in {attempt'}, k \in {kind'}, reps \in {replies'} :
        MachineStateOf(p, a, k, reps) = m

\* the step from Attempting(n) that the machine takes on the latest reply
MachineStep(n) ==
    \E r \in {replies'[Len(replies')]} : \E out \in {AttemptOutcome(kind, r)} :
        /\ replies' = Append(replies, r)
        /\ kind' = kind
        /\ IF out.ok
           THEN /\ Becomes(Succeeded)
                /\ pc' = "returned"
                /\ record' = out.rec
                /\ error' = NoError
           ELSE IF n < 3
           THEN /\ Becomes(Attempting(n + 1))
                /\ record' = JNull
                /\ error' = NoError
           ELSE /\ Becomes(Exhausted)
                /\ IF kind = "crop"
                   THEN /\ pc' = "returned"
                        /\ record' = FallbackRecommendation
                        /\ error' = NoError
                   ELSE /\ pc' = "raised"
                        /\ record' = JNull
                        /\ error' = TerminalError(kind, out.err)

\* C18: a call of a generator method is a run of the machine Attempting(1),
\* Attempting(2), Attempting(3), Succeeded, Exhausted: it starts in
\* Attempting(1); Attempting(n) goes to Succeeded with the record of an
\* accepted reply, to Attempting(n+1) on a failure when n < 3 and to Exhausted
\* on a failure when n = 3; Succeeded and Exhausted are left only by the next
\* call; Exhausted hands back the fallback record for the crop kind and the
\* error for the other four kinds.
C18_RetryLoopIsStateMachine ==
    /\ [](pc = "attempting" =>
            /\ attempt + 1 \in 1..3
            /\ Len(replies) = attempt
            /\ \A i \in 1..Len(replies) : Failed(i))
    /\ [](MachineState = Exhausted =>
            /\ Len(replies) = 3
            /\ \A i \in 1..3 : Failed(i)
            /\ IF kind = "crop"
               THEN pc = "returned" /\ record = FallbackRecommendation
               ELSE pc = "raised" /\ record = JNull /\ error.exc = "RuntimeError")
    /\ [][/\ (pc = "attempting" /\ genVars' # genVars) =>
               \E n \in 1..3 : MachineState = Attempting(n) /\ MachineStep(n)
          /\ (pc # "attempting" /\ genVars' # genVars
                /\ MachineState \in {Succeeded, Exhausted}) =>
               (Becomes(Attempting(1)) \/ Becomes(NotCalling))
          /\ (pc # "attempting" /\ pc' = "attempting") =>
               (Becomes(Attempting(1)) /\ replies' = <<>>)]_vars

\* a soil call that went through Attempting(1), (2), (3) into Exhausted
C18_Witness ==
    /\ MachineState = Exhausted
    /\ kind = "soil"
    /\ pc = "raised"
    /\ Len(replies) = 3
    /\ replies[1].how # replies[3].how

(***************************************************************************)
(* The frame of the add_* methods.                                         *)
(***************************************************************************)
\* the step puts one entry holding what data holds (its 'timestamp' aside) at the end of the
\* history `name` and leaves the other four histories as they were
AppendsOnlyTo(name, data) ==
    /\ Appends(name)
    /\ \A i \in 1..Len(data.kv) :
          data.kv[i][1] # "timestamp" =>
             Get(NewEntry(name), data.kv[i][1], JNull) = data.kv[i][2]
    /\ \A other \in HistoryNames \ {name} : Stored(other)' = Stored(other)

\* C19: add_recommendation, add_diagnosis, add_soil_analysis,
\* add_weather_advisory and add_market_analysis each make their own history
\* one entry longer, the new entry last, and leave the other four histories
\* unchanged; a step that changes a history changes exactly one, by one entry.
C19_AddChangesOwnHistoryOnly ==
    [][/\ \A data \in RecommendationInputs :
             add_recommendation(data) => AppendsOnlyTo("recommendations", data)
       /\ \A data \in DiagnosisInputs :
             add_diagnosis(data) => AppendsOnlyTo("diagnoses", data)
       /\ \A data \in SoilInputs :
             add_soil_analysis(data) => AppendsOnlyTo("soil_analyses", data)
       /\ \A data \in WeatherInputs :
             add_weather_advisory(data) => AppendsOnlyTo("weather_advisories", data)
       /\ \A data \in MarketInputs :
             add_market_analysis(data) => AppendsOnlyTo("market_analyses", data)
       /\ histories' # histories =>
             \E name \in HistoryNames :
                /\ Appends(name)
                /\ \A other \in HistoryNames \ {name} : Stored(other)' = Stored(other)]_vars

\* one append to each of three histories, each holding what it was handed
C19_Witness ==
    /\ Len(soil_analyses) = 1
    /\ Len(weather_advisories) = 1
    /\ Len(market_analyses) = 1
    /\ Get(soil_analyses[1], "soil_type", JNull) = JStr("Loamy")
    /\ Get(weather_advisories[1], "conditions", JNull) = JStr("Heavy rain")
    /\ Get(market_analyses[1], "crop_type", JNull) = JStr("Rice")
    /\ recommendations = <<>>
    /\ diagnoses = <<>>

(***************************************************************************)
(* Independence of the sessions.                                           *)
(***************************************************************************)
session_state == <<has_manager, recommendations, diagnoses, soil_analyses,
                   weather_advisories, market_analyses>>

\* C20: under any interleaving of the runs of two sessions, a step that
\* changes the session state of the other browser leaves the manager and the
\* five histories of this session as they were, and a step that changes the
\* manager or a history of this session is a run of this session alone, the
\* one it takes whatever the other session holds; the same holds with the
\* two sessions exchanged.
C20_SessionsIndependent ==
    /\ [][others' # others => session_state' = session_state]_vars
    /\ [][session_state' # session_state =>
             /\ others' = others
             /\ session_run \/ session_add]_vars
    /\ [][others' # others =>
             \/ other_main(1)
             \/ \E name \in PageHistories : \E data \in PageInputs(name) :
                   other_add(1, name, data)]_vars
    /\ [](~others[1].has_manager => others[1].manager = GreenCureManager_init)

\* both sessions hold entries, each only its own
C20_Witness ==
    /\ Len(recommendations) = 1
    /\ diagnoses = <<>>
    /\ others[1].has_manager
    /\ Len(others[1].manager.diagnoses) = 1
    /\ others[1].manager.recommendations = <<>>
    /\ Get(recommendations[1], "crop_name", JNull) = JStr("Rice")
    /\ Get(others[1].manager.diagnoses[1], "disease_name", JNull) = JStr("Rust")

(***************************************************************************)
(* The order of the attempts and of the page behind them.                  *)
(***************************************************************************)
\* C21: within one call every llm.invoke issued has had its outcome before
\* anything else happens, so no two are outstanding; attempt n+1 is issued
\* only after attempt n has failed; and while the call is in its loop the run
\* that made it stores nothing and shows nothing: the page goes on only
\* behind a returned record or an exhausted loop.
C21_AttemptsSequentialUiBlocks ==
    /\ [](calls = Len(replies) /\ calls <= max_attempts)
    /\ [](pc = "attempting" => (calls = attempt /\ \A i \in 1..calls : Failed(i)))
    /\ [](ui = "calling" => (run # NoRun /\ pc \in {"attempting", "returned", "raised"}))
    /\ [][calls' # calls =>
             \/ calls' = 0
             \/ /\ calls' = calls + 1
                /\ pc = "attempting"
                /\ SubSeq(replies', 1, calls) = replies]_vars
    /\ [][(ui = "calling" /\ pc = "attempting") =>
             (ui' = "calling" /\ UNCHANGED <<histories, report, shown, run>>)]_vars
    /\ [][(ui = "calling" /\ ui' = "idle") =>
             /\ pc \in {"returned", "raised"}
             /\ pc = "raised" => (calls = max_attempts /\ UNCHANGED histories)]_vars

\* a soil entry stored behind a call whose third attempt was accepted
C21_Witness ==
    /\ ui = "idle"
    /\ kind = "soil"
    /\ pc = "returned"
    /\ calls = 3
    /\ Len(soil_analyses) = 1
    /\ shown = "Soil Analysis Complete!"

(***************************************************************************)
(* Replies that are JSON arrays.                                           *)
(***************************************************************************)
IsArray(r) == r.how = "json" /\ r.body.t = "list"

\* C22: only get_crop_recommendation looks into a reply that is a JSON array.
\* For the disease, soil, weather and market methods every array reply, the
\* one whose first element matches the schema included, is a failed attempt
\* with the parser's exception, and no record is returned from it; the crop
\* method accepts the array whose first element matches its schema.
C22_ArrayCaseCropOnly ==
    /\ []((kind # "crop" /\ pc = "attempting") =>
             \A body \in ArrayBodies(kind) :
                AttemptOutcome(kind, JsonReply(body)) =
                   Fail(Exc("OutputParserException", "Failed to parse " \o ClassName(kind))))
    /\ []((kind = "crop" /\ pc = "attempting") =>
             AttemptOutcome("crop", JsonReply(JList(<<Sample("crop", "A")>>)))
                = Ok(Sample("crop", "A")))
    /\ [][(kind # "crop" /\ replies' # replies /\ replies' # <<>>
             /\ IsArray(replies'[Len(replies')])) =>
                /\ pc' # "returned"
                /\ record' = JNull
                /\ lastError'.exc = "OutputParserException"]_vars

\* a disease call exhausted by three arrays, the last holding a valid record
C22_Witness ==
    /\ kind = "disease"
    /\ pc = "raised"
    /\ Len(replies) = 3
    /\ \A i \in 1..3 : IsArray(replies[i])
    /\ replies[3] = JsonReply(JList(<<Sample("disease", "A")>>))
    /\ replies[1] = JsonReply(JList(<<>>))

(***************************************************************************)
(* Submissions that lack an input.                                         *)
(***************************************************************************)
\* the inputs of each page that the user can leave empty and that the page
\* asks for
NamedInputs(option) ==
    CASE option = "Crop Recommendations" -> { "location" }
      [] option = "Disease Diagnosis" -> { "symptoms" }
      [] option = "Soil Analysis" -> { "region" }
      [] option = "Weather Advisory" -> { "location", "current_weather" }
      [] OTHER -> { "location" }

MissingMessage(option) ==
    CASE option = "Crop Recommendations" -> "Please enter your location"
      [] option = "Soil Analysis" -> "Please enter your region"
      [] OTHER -> "Please fill in all required fields"

LacksInput(option, form) ==
    /\ form.submitted
    /\ \E name \in NamedInputs(option) : ~Truthy(Input(form, name))

\* every submission of a service page that lacks one of those inputs
LackingSubmissions ==
    UNION { { [option |-> option, form |-> form] :
                form \in { f \in Forms(option) : LacksInput(option, f) } } :
            option \in ServicePages }

\* what the page `option` does in a run whose generator was built
Page(option, api, form) ==
    CASE option = "Crop Recommendations" -> display_crop_recommendations(api, form)
      [] option = "Disease Diagnosis" -> display_disease_diagnosis(api, form)
      [] option = "Soil Analysis" -> display_soil_analysis(api, form)
      [] option = "Weather Advisory" -> display_weather_advisory(api, form)
      [] OTHER -> display_market_analysis(api, form)

\* C23: a run of main() that reaches a service page whose form was submitted
\* with location (crop), symptoms (disease), region (soil), location or
\* current weather (weather) or location (market) empty ends at once with
\* the page's error message, with no generator method called and no
\* llm.invoke issued, and with the five histories as they were.
C23_MissingInputStopsRun ==
    [][(ui = "idle" /\ ai'.state = "ready") =>
          \A usable \in {{api \in api_keys : GreenCureAI_init(JStr(api), environ) = NoError}} :
             \A submission \in LackingSubmissions : \A api \in usable :
                Page(submission.option, api, submission.form)
                => /\ ui' = "idle"
                   /\ shown' = MissingMessage(submission.option)
                   /\ pc' = "idle"
                   /\ calls' = 0
                   /\ replies' = <<>>
                   /\ UNCHANGED histories]_vars

\* the message for a missing input, shown to a session that holds an entry
C23_Witness ==
    /\ shown = "Please enter your region"
    /\ ui = "idle"
    /\ pc = "idle"
    /\ calls = 0
    /\ TotalEntries = 1

(***************************************************************************)
(* The timestamps of the entries.                                          *)
(***************************************************************************)
\* the second a timestamp text names
SecondsOf(text) == CHOOSE t \in 0..(MaxClock + 1) : Strftime(t) = text

TimestampOf(entry) == Get(entry, "timestamp", JNull)

TimestampKeys(entry) == { i \in 1..Len(entry.kv) : entry.kv[i][1] = "timestamp" }

\* C24: every entry of every history has exactly one 'timestamp' key; an
\* append sets it to the text of the clock as read by that append, whatever
\* 'timestamp' the data handed in carried; and as the clock never goes back,
\* the timestamps of one history do not decrease from one entry to the next.
C24_EntriesStampedByStore ==
    /\ [](\A name \in HistoryNames : \A i \in 1..Len(Stored(name)) :
             /\ Cardinality(TimestampKeys(Stored(name)[i])) = 1
             /\ \E t \in 0..clock : TimestampOf(Stored(name)[i]) = JStr(Strftime(t)))
    /\ [](\A name \in HistoryNames : \A i, j \in 1..Len(Stored(name)) :
             i <= j => SecondsOf(TimestampOf(Stored(name)[i]).s)
                         <= SecondsOf(TimestampOf(Stored(name)[j]).s))
    /\ [][/\ clock' >= clock
          /\ \A name \in HistoryNames :
                Appends(name) => TimestampOf(NewEntry(name)) = JStr(Strftime(clock'))]_vars

\* data that carried a 'timestamp' of its own, stored a second after an
\* earlier entry
C24_Witness ==
    /\ Len(market_analyses) = 2
    /\ market_analyses[1].kv[1][1] = "crop_type"
    /\ market_analyses[2].kv[1] = <<"timestamp", JStr(Strftime(1))>>
    /\ TimestampOf(market_analyses[1]) = JStr(Strftime(0))

(***************************************************************************)
(* The market_value sub-object.                                            *)
(***************************************************************************)
\* the text of one part of a market_value sub-object, or the default
PartText(market_info, key, default) ==
    IF HasKey(market_info, key) THEN PyStr(Get(market_info, key, JNull)) ELSE default

CollapsedText(market_info) ==
    PartText(market_info, "current_price", "Price varies") \o ", "
      \o PartText(market_info, "demand", "Good demand")

\* the reply is an array whose first element is an object with a sub-object
\* as market_value, and that is acceptable once market_value is text
CollapsibleArray(r) ==
    /\ IsArray(r)
    /\ Len(r.body.items) > 0
    /\ r.body.items[1].t = "obj"
    /\ Get(r.body.items[1], "market_value", JNull).t = "obj"
    /\ AttemptOutcome("crop", JsonReply(SetKey(r.body.items[1], "market_value", JStr("text")))).ok

\* C25: get_crop_recommendation accepts an array whose first element has a
\* market_value sub-object and returns the record with market_value
\* "<price>, <demand>", "Price varies" standing for a missing current_price and
\* "Good demand" for a missing demand; a reply that is a single object with a
\* market_value sub-object is not collapsed and is a failed attempt.
C25_MarketValueCollapse ==
    /\ [][(kind = "crop" /\ pc = "attempting" /\ replies' # replies) =>
             \E r \in {replies'[Len(replies')]} :
                /\ CollapsibleArray(r) =>
                     /\ pc' = "returned"
                     /\ Get(record', "market_value", JNull)
                          = JStr(CollapsedText(Get(r.body.items[1], "market_value", JNull)))
                /\ (r.how = "json" /\ r.body.t = "obj"
                      /\ Get(r.body, "market_value", JNull).t = "obj") =>
                     /\ pc' # "returned" \/ record' = FallbackRecommendation
                     /\ lastError'.exc = "OutputParserException"]_vars
    /\ []((kind = "crop" /\ pc = "attempting") =>
             \A mv \in MarketValues :
                ~AttemptOutcome("crop", JsonReply(SetKey(Sample("crop", "A"), "market_value", mv))).ok)

\* a recommendation returned from an array whose market_value lacked the price
C25_Witness ==
    /\ kind = "crop"
    /\ pc = "returned"
    /\ replies # <<>>
    /\ LastReply = JsonReply(JList(<<SetKey(Sample("crop", "A"), "market_value",
                                             JObj(<< <<"demand", JStr("high")>> >>))>>))
    /\ Get(record, "market_value", JNull) = JStr("Price varies, high")

(***************************************************************************)
(* Replies that start with '[' and hold no recommendation.                 *)
(***************************************************************************)
\* text that starts with '[' and is no JSON, an empty array, or an array
\* whose first element is no object
BracketFailure(r) ==
    \/ r.how = "garbage" /\ r.bracket
    \/ IsArray(r) /\ r.body.items = <<>>
    \/ IsArray(r) /\ r.body.items # <<>> /\ r.body.items[1].t # "obj"

\* C26: in get_crop_recommendation a reply that starts with '[' and is no
\* JSON, is an empty array, or is an array whose first element is no object
\* is one failed attempt: no error leaves the method, the loop goes on to the
\* next attempt, and the third such reply in a row makes the method return
\* the fallback record.
C26_BracketFailuresStayInLoop ==
    /\ [](kind = "crop" => (pc # "raised" /\ error = NoError))
    /\ [][(kind = "crop" /\ pc = "attempting" /\ replies' # replies) =>
             \E r \in {replies'[Len(replies')]} :
                BracketFailure(r) =>
                   /\ error' = NoError
                   /\ lastError' # NoError
                   /\ calls' = calls + 1
                   /\ IF attempt < max_attempts - 1
                      THEN pc' = "attempting" /\ attempt' = attempt + 1 /\ record' = JNull
                      ELSE pc' = "returned" /\ record' = FallbackRecommendation]_vars

\* the fallback returned after one reply of each of the three sorts
C26_Witness ==
    /\ kind = "crop"
    /\ pc = "returned"
    /\ record = FallbackRecommendation
    /\ replies = << GarbageReply(TRUE), JsonReply(JList(<<>>)),
                    JsonReply(JList(<<JStr("Rice")>>)) >>
    /\ lastError.exc = "AttributeError"

(***************************************************************************)
(* The reports and the store.                                              *)
(***************************************************************************)
\* the step is a report generation: it leaves a document, a failure message
\* or the content of a text report
ReportGenerated ==
    /\ report' # report \/ clock' # clock
    /\ report'.status \in {"pdf", "failed", "text"}

\* C27: a step of generate_comprehensive_report, saved or failed, and a step
\* of generate_specific_report, for any report type, leave each of the five
\* histories equal to what it was: same length, same order, same entries.
C27_ReportsReadOnly ==
    [][ReportGenerated =>
          /\ \A name \in HistoryNames :
                /\ Len(Stored(name)') = Len(Stored(name))
                /\ \A i \in 1..Len(Stored(name)) : Stored(name)'[i] = Stored(name)[i]
          /\ UNCHANGED histories]_vars

\* the text report of the recommendations, generated over three entries
\* that are still stored
C27_Witness ==
    /\ report.status = "text"
    /\ Len(report.lines) > 7
    /\ report.lines[2].text = "GREEN CURE - CROP RECOMMENDATIONS SUMMARY"
    /\ Len(recommendations) = 2
    /\ Len(market_analyses) = 1

(***************************************************************************)
(* The content of the text reports.                                        *)
(***************************************************************************)
ReportTitle(section) ==
    IF section = "recommendations" THEN "GREEN CURE - CROP RECOMMENDATIONS SUMMARY"
    ELSE "GREEN CURE - DISEASE DIAGNOSIS HISTORY"

TotalLabel(section) ==
    IF section = "recommendations" THEN "Total Recommendations: " ELSE "Total Diagnoses: "

EntryHeading(section, i) ==
    (IF section = "recommendations" THEN "Recommendation " ELSE "Diagnosis ")
      \o ToString(i) \o ":"

\* the first field the report shows of an entry
FirstField(section, entry) ==
    IF section = "recommendations"
    THEN "- Crop: " \o PyStr(Get(entry, "crop_name", JStr("N/A")))
    ELSE "- Disease: " \o PyStr(Get(entry, "disease_name", JStr("N/A")))

\* the lines of the content that belong to entries, and the total lines
ContentEntryLines == SelectSeq(report.lines, LAMBDA l : l.entry > 0)
ContentTotalLines == SelectSeq(report.lines, LAMBDA l : l.section = "total")

\* C28: the text reports "Crop Recommendations Summary" and "Disease
\* Diagnosis History" state as total the length n of the history and list
\* every one of its n entries, also when n > 3, numbered 1..n in the order
\* of insertion, each with the fields of the entry of that number; for n = 0
\* the total is 0 and no entry is listed.
C28_TextReportsListEveryEntry ==
    \A section \in {"recommendations", "diagnoses"} :
       ( /\ report.status = "text"
         /\ report.lines[2].text = ReportTitle(section) ) =>
          LET n == Len(Stored(section))
          IN  /\ ContentTotalLines
                   = << TextLine("total", 0, TotalLabel(section) \o ToString(n)) >>
              /\ Len(ContentEntryLines) = 8 * n
              /\ \A k \in 1..Len(ContentEntryLines) :
                    /\ ContentEntryLines[k].entry = ((k - 1) \div 8) + 1
                    /\ ContentEntryLines[k].section = section
              /\ \A i \in 1..n :
                    /\ ContentEntryLines[8 * (i - 1) + 2].text = EntryHeading(section, i)
                    /\ ContentEntryLines[8 * (i - 1) + 3].text
                         = FirstField(section, Stored(section)[i])
                    /\ ContentEntryLines[8 * (i - 1) + 7].text
                         = "- Timestamp: "
                             \o PyStr(Get(Stored(section)[i], "timestamp", JStr("N/A")))

\* the summary of four recommendations, the oldest of them first
C28_Witness ==
    /\ report.status = "text"
    /\ report.lines[2].text = "GREEN CURE - CROP RECOMMENDATIONS SUMMARY"
    /\ Len(recommendations) = 4
    /\ Len(ContentEntryLines) = 32
    /\ ContentEntryLines[3].text = "- Crop: Maize"
    /\ ContentEntryLines[27].text = "- Crop: Rice"
    /\ ContentEntryLines[26].text = "Recommendation 4:"

(***************************************************************************)
(* The vertical positions of the comprehensive document.                   *)
(***************************************************************************)
\* C29: in the comprehensive document every line of an entry is drawn at a
\* y with 60 <= y <= height - 40, whatever the lengths of the histories; from
\* one line of an entry to the next y goes down by 15, and a new page with y
\* back at height - 40 is started before a line exactly when y has fallen
\* below 60.
C29_EntryLinesWithinPage ==
    report.status = "pdf" =>
       /\ \A k \in 1..Len(report.lines) :
             report.lines[k].entry > 0 =>
                (60 <= report.lines[k].y /\ report.lines[k].y <= height - 40)
       /\ \A k \in 1..(Len(report.lines) - 1) :
             ( /\ report.lines[k].entry > 0
               /\ report.lines[k + 1].entry > 0
               /\ report.lines[k].section = report.lines[k + 1].section ) =>
                IF report.lines[k].y - 15 < 60
                THEN /\ report.lines[k + 1].page = report.lines[k].page + 1
                     /\ report.lines[k + 1].y = height - 40
                ELSE /\ report.lines[k + 1].page = report.lines[k].page
                     /\ report.lines[k + 1].y = report.lines[k].y - 15

\* the document over histories of three and one entries: the last line of
\* the last diagnosis is the lowest line drawn
C29_Witness ==
    /\ report.status = "pdf"
    /\ Len(recommendations) = 3
    /\ Len(diagnoses) = 1
    /\ report.lines[Len(report.lines)].entry = 1
    /\ report.lines[Len(report.lines)].section = "diagnoses"
    /\ report.lines[Len(report.lines)].y = 302
    /\ report.lines[4].y = 662

====
